---- MODULE Spec2Model ----
(***************************************************************************)
(* AutoNav runner: the control orchestrator (controller.py), the policy    *)
(* inference unit (systems/inference.py), the subsystem lifecycle          *)
(* (systems/subsystem.py), the place-recognition engine (systems/vpr.py)   *)
(* and the PWM driver (drivers/pwmcontroller.py), as a state machine.      *)
(*                                                                         *)
(* Units.  Throttle and steering commands are in tenths (10 is 1.0).       *)
(* Confidences are in hundredths; a smoothed confidence is kept exact as   *)
(* the pair (sum, count) of the samples it is the mean of.  Pulse widths   *)
(* are in microseconds.                                                    *)
(***************************************************************************)
EXTENDS Integers, Sequences, FiniteSets, TLC

\* ------------------------------------------------------------------ bounds
MaxAct == 2
MaxInf == 2
MaxCount == 7
MaxFrames == 4
MaxPress == 4

\* ------------------------------------------------------- program constants
TOP_K == 5
AVG_WINDOW == 3
StopThreshold == 75
DriveEnableThreshold == 5
THROTTLE_NEUTRAL == 1500
THROTTLE_BRAKE_US == 1000
THR_START_US == 1575
THR_MAX_US == 1600
THR_RANGE_US == THR_MAX_US - THR_START_US
STEER_MIN == 1000
STEER_MAX == 2000
STEER_CENTER == 1500

None == "none"
NoRegion == ""

Min(a, b) == IF a < b THEN a ELSE b
Max(a, b) == IF a > b THEN a ELSE b

\* ------------------------------------------------------------ environment
\* What the drive-enable line can read.
LineValues == {0, 1}

\* Raw policy outputs <<throttle, steering>> before clamping.
PolicyOutputs == {<<-20, 5>>, <<10, -20>>}

\* Camera frames, named by what the embedding and the database turn them into.
Frames == {"fa", "fb"}

\* The regions a stop can be requested for.
Regions == {"r1"}

\* torch.topk of the cosine similarities of one frame against the database:
\* TOP_K (region, confidence) pairs, highest first, a region once per
\* database vector of it that made the cut.
FrameTop(f) ==
    CASE f = "fa" -> << <<"r1", 85>>, <<"r1", 80>>, <<"r1", 75>>, <<"r2", 50>>, <<"r2", 40>> >>
      [] f = "c1" -> << <<"r1", 90>>, <<"r3", 30>>, <<"r4", 20>>, <<"r5", 10>>, <<"r6", 5>> >>
      [] f = "c2" -> << <<"r1", 60>>, <<"r3", 30>>, <<"r4", 20>>, <<"r5", 10>>, <<"r6", 5>> >>
      [] f = "c3" -> << <<"r2", 80>>, <<"r3", 30>>, <<"r4", 20>>, <<"r5", 10>>, <<"r7", 5>> >>
      [] OTHER    -> << <<"r2", 95>>, <<"r2", 90>>, <<"r2", 85>>, <<"r2", 80>>, <<"r1", 75>> >>

\* The frames the smoothing is tried on: the two above and three whose best
\* matches are (r1, 0.9), (r1, 0.6) and (r2, 0.8), each followed by four weak
\* matches of other regions.
SmoothFrames == Frames \cup {"c1", "c2", "c3"}

\* ---------------------------------------------------------------- PWM driver
\* ThrottleUs without the deadband test: a zero command gets the first pulse
\* that moves the wheels.
ThrottleUsNoDeadband(throttle) ==
    IF throttle < 0
    THEN THROTTLE_NEUTRAL
    ELSE THR_START_US + (Min(10, throttle) * THR_RANGE_US) \div 10

\* A throttle mapping that answers a negative command with a reverse pulse.
ThrottleUsSigned(throttle) ==
    IF throttle = 0 THEN THROTTLE_NEUTRAL
    ELSE IF throttle < 0 THEN THROTTLE_NEUTRAL + Max(-10, throttle) * 50
    ELSE THR_START_US + (Min(10, throttle) * THR_RANGE_US) \div 10

\* PWMController.set_controls, throttle mapping (THR_DEADBAND is 0.00).
ThrottleUs(throttle) ==
    IF throttle <= 0
    THEN THROTTLE_NEUTRAL
    ELSE THR_START_US + (Min(10, throttle) * THR_RANGE_US) \div 10

\* PWMController.set_controls, steering mapping.
SteerUs(steering) ==
    Max(STEER_MIN, Min(STEER_CENTER + steering * 50, STEER_MAX))

\* ------------------------------------------------------------------ policy
\* Inference.loop: max(-1, min(1, x)).
Clamp(x) == Max(-10, Min(10, x))

\* ------------------------------------------------------------ VPR smoothing
RECURSIVE Flatten(_)
\* for frame in self.pred_hist: for r, c in frame
Flatten(hist) ==
    IF hist = << >> THEN << >> ELSE Head(hist) \o Flatten(Tail(hist))

RECURSIVE FirstSeen(_, _)
\* The keys of acc in insertion order.
FirstSeen(flat, seen) ==
    IF flat = << >> THEN << >>
    ELSE IF Head(flat)[1] \in seen THEN FirstSeen(Tail(flat), seen)
    ELSE <<Head(flat)[1]>> \o FirstSeen(Tail(flat), seen \cup {Head(flat)[1]})

RECURSIVE SumOf(_, _)
SumOf(r, flat) ==
    IF flat = << >> THEN 0
    ELSE (IF Head(flat)[1] = r THEN Head(flat)[2] ELSE 0) + SumOf(r, Tail(flat))

\* CountOf counting every frame of the window, the region in it or not.
CountOfZeroFilled(r, flat) == Len(flat) \div TOP_K

RECURSIVE CountOf(_, _)
CountOf(r, flat) ==
    IF flat = << >> THEN 0
    ELSE (IF Head(flat)[1] = r THEN 1 ELSE 0) + CountOf(r, Tail(flat))

\* mean_conf = {r: sum(v) / len(v)}, each mean kept as <<region, sum, count>>.
MeanConf(hist) ==
    LET flat == Flatten(hist)
        keys == FirstSeen(flat, {})
    IN  [i \in 1..Len(keys) |-> <<keys[i], SumOf(keys[i], flat), CountOf(keys[i], flat)>>]

\* a's mean is strictly greater than b's.
ConfGreater(a, b) == a[2] * b[3] > b[2] * a[3]

RECURSIVE InsertDesc(_, _)
\* Insert e after every element that is not smaller (stable).
InsertDesc(e, s) ==
    IF s = << >> THEN <<e>>
    ELSE IF ConfGreater(e, Head(s)) THEN <<e>> \o s
    ELSE <<Head(s)>> \o InsertDesc(e, Tail(s))

RECURSIVE SortDesc(_)
\* sorted(..., key=conf, reverse=True): stable, highest first.
SortDesc(s) ==
    IF s = << >> THEN << >>
    ELSE InsertDesc(s[Len(s)], SortDesc(SubSeq(s, 1, Len(s) - 1)))

\* PushWindow on a deque with no maxlen.
PushWindowKeepAll(hist, frameTop) == Append(hist, frameTop)

\* deque(maxlen=AVG_WINDOW).append
PushWindow(hist, frameTop) ==
    LET h == Append(hist, frameTop)
    IN  IF Len(h) > AVG_WINDOW THEN Tail(h) ELSE h

\* VPRSystem.loop: the smoothed estimate of a window.
Smooth(hist) ==
    LET ordered == SortDesc(MeanConf(hist))
    IN  SubSeq(ordered, 1, Min(TOP_K, Len(ordered)))

\* [("", 0.0)] * TOP_K
ZeroTopK == [i \in 1..TOP_K |-> <<NoRegion, 0, 1>>]

\* ---------------------------------------------------------------- the state
VARIABLES
    \* Controller
    stop_ev,        \* self.stop_ev
    obs_q,          \* self.obs_q, Queue(maxsize=1); an observation is <<newest>>
    act_q,          \* self.act_q, Queue(maxsize=1), of <<number, throttle, steering>>
    stop_region,    \* self.stop_region (NoRegion is None)
    drive_counter,  \* self._drive_enable_counter
    inf,            \* self.inf: the unit referenced, 0 is None
    t_vpr,          \* self.t_vpr: "none", "alive" or "dead"
    vpr_loop_ev,    \* self._vpr_loop_ev
    sensorPc,       \* t_sensor
    actPc,          \* t_act
    actTop,         \* _act_loop: top_regions, << >> once the stop condition is decided
    actHeld,        \* _act_loop: the Action taken from act_q, << >> if none
    btnPc,          \* t_btn
    callPc,         \* where each caller of shutdown_all / stop_inference is
    \* PWMController and the other hardware
    throttle_us,
    steer_us,
    released,       \* hardware resources released so far
    \* Inference units, by number of creation
    infPc,
    infStopEv,      \* Subsystem._stop_event
    infReady,       \* Subsystem._ready
    infObs,         \* Inference.loop: obs as it was read, << >> if none
    infAct,         \* Inference.loop: (throttle, steer) after clamping
    \* VPRSystem and ImageRecognizer
    vprPc,
    vprStopEv,
    vpr_image,      \* self._image, None if no frame is pending
    vprImg,         \* VPRSystem.loop: img
    pred_hist,
    top_k,          \* self._top_k
    recStopEv,
    \* SharedState._data
    shared,
    snap,           \* what the last SharedState.snapshot() returned to its caller
    \* History, read by the properties only
    actSeq,         \* Actions put on act_q so far: the number of the newest
    actSeen,        \* actSeq when the actuation loop last took an Action
    applyCount,     \* how often each Action was applied to the actuator
    enabledRun,     \* enabled samples since the last disabled one
    iterHit,        \* this actuation cycle found the stop condition true
    iterPermit,     \* this cycle's drive_enabled(): "na", "yes" or "no"
    iterCmds,       \* the commands this cycle issued to the actuator
    iterTaken,      \* the Actions this cycle removed from act_q
    iterTimeout,    \* this cycle's wait for an Action timed out
    putFull,        \* some put_nowait on act_q raised Full
    flagSets,       \* how many callers set stop_ev
    signalled,      \* the units told to stop so far
    vprLog,         \* the statuses the run() of the VPR thread published, in order
    snapTaken,      \* SharedState._data when the last snapshot was taken
    frameLog,       \* the frames pushed into the window since init_hardware
    clearAt,        \* Len(frameLog) at the last clear(), -1 before the first
    \* Navigator
    net,            \* self._network: which region network was loaded
    goal_region,    \* self.goal_region (NoRegion is None)
    current_path,   \* self.current_path
    navRes,         \* what the last update() returned, with its arguments
    \* button loop and recognizer input
    rec_q,          \* self.rec_q, Queue(maxsize=2), of frames
    prev,           \* the local `prev` of _btn_loop
    btnLog,         \* what became of each falling edge the loop saw, in order
    \* publish(top_regions=self._top_k): the argument is read, then put
    pubArg,         \* the argument the VPR thread read for its publish
    clrPc,          \* where the caller of VPRSystem.clear is
    clrArg          \* the argument that caller read for its publish

vars == <<stop_ev, obs_q, act_q, stop_region, drive_counter, inf, t_vpr,
          vpr_loop_ev, sensorPc, actPc, actTop, actHeld, btnPc, callPc,
          throttle_us, steer_us, released, infPc, infStopEv, infReady, infObs,
          infAct, vprPc, vprStopEv, vpr_image, vprImg, pred_hist, top_k,
          recStopEv, shared, actSeq, actSeen, applyCount,
          enabledRun, iterHit, iterPermit, iterCmds, iterTaken,
          iterTimeout, putFull, flagSets, signalled, vprLog, snap, snapTaken,
          frameLog, clearAt, net, goal_region, current_path, navRes,
          rec_q, prev, btnLog, pubArg, clrPc, clrArg>>

ctlVars == <<stop_ev, stop_region, inf, t_vpr, vpr_loop_ev, btnPc, callPc, released,
             recStopEv, flagSets, signalled>>
sensorVars == <<sensorPc, obs_q>>
actVars == <<actPc, actTop, actHeld, drive_counter, actSeen, applyCount, enabledRun,
             iterHit, iterPermit, iterCmds, iterTaken, iterTimeout>>
pwmVars == <<throttle_us, steer_us>>
infVars == <<infPc, infStopEv, infReady, infObs, infAct>>
vprVars == <<vprPc, vprStopEv, vpr_image, vprImg, pred_hist, top_k, vprLog>>
snapVars == <<snap, snapTaken>>
smoothVars == <<frameLog, clearAt>>
navVars == <<net, goal_region, current_path, navRes>>
btnVars == <<rec_q, prev, btnLog>>
pubVars == <<pubArg, clrPc, clrArg>>

Units == 1..MaxInf
ShutCallers == {"signal", "exit"}
Callers == ShutCallers \cup {"estop"}

\* threading.Thread.is_alive() of an inference unit.
IsAlive(i) == infPc[i] \notin {"none", "new", "dead"}

\* Subsystem.is_running
IsRunning(i) == IsAlive(i) /\ infReady[i]

\* SharedState.put: the entry of `who` is replaced whole.  Numeric payload is
\* kept as its coerced type, "float"; the timestamp is left out.
Put(who, entry) == [shared EXCEPT ![who] = entry]

\* update() has not been called.
NoResult == [status |-> "NONE"]

\* No Navigator has been constructed.
NoNet == "unloaded"

\* No snapshot has been asked for.
NoSnapshot == [kind |-> "none"]

\* Controller.__init__ (and the constructors it calls) has returned.
Init ==
    /\ stop_ev = FALSE
    /\ obs_q = << >>
    /\ act_q = << >>
    /\ stop_region = NoRegion
    /\ drive_counter = 0
    /\ inf = 0
    /\ t_vpr = "none"
    /\ vpr_loop_ev = FALSE
    /\ sensorPc = "run"
    /\ actPc = "top"
    /\ actTop = << >>
    /\ actHeld = << >>
    /\ btnPc = "run"
    /\ callPc = [c \in Callers |-> "idle"]
    /\ throttle_us = THROTTLE_NEUTRAL
    /\ steer_us = STEER_CENTER
    /\ released = {}
    /\ infPc = [i \in Units |-> "none"]
    /\ infStopEv = [i \in Units |-> FALSE]
    /\ infReady = [i \in Units |-> FALSE]
    /\ infObs = [i \in Units |-> << >>]
    /\ infAct = [i \in Units |-> << >>]
    /\ vprPc = "start"
    /\ vprStopEv = FALSE
    /\ vpr_image = None
    /\ vprImg = None
    /\ pred_hist = << >>
    /\ top_k = ZeroTopK
    /\ recStopEv = FALSE
    /\ shared = [who \in {"inference", "vpr"} |->
                    IF who = "vpr" THEN [top_regions |-> ZeroTopK] ELSE [absent |-> TRUE]]
    /\ actSeq = 0
    /\ actSeen = 0
    /\ applyCount = [n \in 1..MaxAct |-> 0]
    /\ enabledRun = 0
    /\ iterHit = FALSE
    /\ iterPermit = "na"
    /\ iterCmds = << >>
    /\ iterTaken = 0
    /\ iterTimeout = FALSE
    /\ putFull = FALSE
    /\ flagSets = 0
    /\ signalled = {}
    /\ vprLog = << >>
    /\ snap = NoSnapshot
    /\ snapTaken = NoSnapshot
    /\ frameLog = << >>
    /\ clearAt = -1
    /\ net = NoNet
    /\ goal_region = NoRegion
    /\ current_path = << >>
    /\ navRes = NoResult
    /\ rec_q = << >>
    /\ prev = 1
    /\ btnLog = << >>
    /\ pubArg = << >>
    /\ clrPc = "idle"
    /\ clrArg = << >>

\* ------------------------------------------------------------- sensor loop
\* Queue.put_nowait on a queue of capacity 1: Full is raised and swallowed,
\* the queue keeps what it holds.
ObsPutNowait(q, obs) == IF Len(q) < 1 THEN Append(q, obs) ELSE q

\* A newer observation exists: the ones still queued are no longer the newest.
Superseded(q) == [k \in 1..Len(q) |-> <<FALSE>>]

\* Controller._sensor_loop, one iteration: a new observation is built and
\* offered to obs_q.
SensorStep ==
    /\ sensorPc = "run"
    /\ ~stop_ev
    /\ obs_q' = ObsPutNowait(Superseded(obs_q), <<TRUE>>)
    /\ UNCHANGED <<sensorPc, act_q, shared, actSeq, putFull>>
    /\ UNCHANGED <<ctlVars, actVars, pwmVars, infVars, vprVars>>
    /\ UNCHANGED <<snapVars, smoothVars, navVars, btnVars, pubVars>>

\* Controller._sensor_loop: the while condition fails.
SensorExit ==
    /\ sensorPc = "run"
    /\ stop_ev
    /\ sensorPc' = "done"
    /\ UNCHANGED <<obs_q, act_q, shared, actSeq, putFull>>
    /\ UNCHANGED <<ctlVars, actVars, pwmVars, infVars, vprVars>>
    /\ UNCHANGED <<snapVars, smoothVars, navVars, btnVars, pubVars>>

\* ---------------------------------------------------------- actuation loop
\* any(r == self.stop_region and c > self.stop_threshold for r, c in top_regions)
StopHit(region, top) ==
    \E k \in 1..Len(top) : top[k][1] = region /\ top[k][2] > StopThreshold * top[k][3]

\* The condition of the brake branch of _act_loop.
StopCondition(region, top) == region # NoRegion /\ StopHit(region, top)

\* Controller.drive_enabled: the counter after a sample.
DriveCounterNext(counter, val) == IF val = 1 THEN counter + 1 ELSE 0

\* DrivePermitted with >= for >.
DrivePermittedAtThreshold(counter) == counter >= DriveEnableThreshold

\* Controller.drive_enabled: the value returned.
DrivePermitted(counter) == counter > DriveEnableThreshold

\* _act_loop: the loop condition holds; top_regions = self.vpr.get_top_regions()
ActRead ==
    /\ actPc = "top"
    /\ ~stop_ev
    /\ actTop' = top_k
    /\ actPc' = "decide"
    /\ iterHit' = FALSE
    /\ iterPermit' = "na"
    /\ iterCmds' = << >>
    /\ iterTaken' = 0
    /\ iterTimeout' = FALSE
    /\ UNCHANGED <<actHeld, drive_counter, actSeen, applyCount, enabledRun>>
    /\ UNCHANGED <<act_q, shared, actSeq, putFull>>
    /\ UNCHANGED <<ctlVars, sensorVars, pwmVars, infVars, vprVars>>
    /\ UNCHANGED <<snapVars, smoothVars, navVars, btnVars, pubVars>>

\* _act_loop: the loop condition fails.
ActExit ==
    /\ actPc = "top"
    /\ stop_ev
    /\ actPc' = "done"
    /\ UNCHANGED <<actTop, actHeld, drive_counter, actSeen, applyCount, enabledRun,
                   iterHit, iterPermit, iterCmds, iterTaken, iterTimeout>>
    /\ UNCHANGED <<act_q, shared, actSeq, putFull>>
    /\ UNCHANGED <<ctlVars, sensorVars, pwmVars, infVars, vprVars>>
    /\ UNCHANGED <<snapVars, smoothVars, navVars, btnVars, pubVars>>

\* _act_loop: the stop condition is true.
ActDecideStop ==
    /\ actPc = "decide"
    /\ StopCondition(stop_region, actTop)
    /\ actPc' = "brake"
    /\ iterHit' = TRUE
    /\ actTop' = << >>
    /\ UNCHANGED <<actHeld, drive_counter, actSeen, applyCount, enabledRun,
                   iterPermit, iterCmds, iterTaken, iterTimeout>>
    /\ UNCHANGED <<act_q, shared, actSeq, putFull>>
    /\ UNCHANGED <<ctlVars, sensorVars, pwmVars, infVars, vprVars>>
    /\ UNCHANGED <<snapVars, smoothVars, navVars, btnVars, pubVars>>

\* _act_loop: the stop condition is false.
ActDecideGo ==
    /\ actPc = "decide"
    /\ ~StopCondition(stop_region, actTop)
    /\ actPc' = "sample"
    /\ actTop' = << >>
    /\ UNCHANGED <<actHeld, drive_counter, actSeen, applyCount, enabledRun,
                   iterHit, iterPermit, iterCmds, iterTaken, iterTimeout>>
    /\ UNCHANGED <<act_q, shared, actSeq, putFull>>
    /\ UNCHANGED <<ctlVars, sensorVars, pwmVars, infVars, vprVars>>
    /\ UNCHANGED <<snapVars, smoothVars, navVars, btnVars, pubVars>>

\* ActBrake with drive_enabled() called as well, the line reading 0.
ActBrakeSampling ==
    /\ actPc = "brake"
    /\ throttle_us' = THROTTLE_BRAKE_US
    /\ drive_counter' = DriveCounterNext(drive_counter, 0)
    /\ iterCmds' = Append(iterCmds, "brake")
    /\ actPc' = "drain"
    /\ UNCHANGED <<actTop, actHeld, actSeen, applyCount, enabledRun,
                   iterHit, iterPermit, iterTaken, iterTimeout>>
    /\ UNCHANGED <<steer_us, act_q, shared, actSeq, putFull>>
    /\ UNCHANGED <<ctlVars, sensorVars, infVars, vprVars>>
    /\ UNCHANGED <<snapVars, smoothVars, navVars, btnVars, pubVars>>

\* _act_loop: self.pwm.hard_brake()
ActBrake ==
    /\ actPc = "brake"
    /\ throttle_us' = THROTTLE_BRAKE_US
    /\ iterCmds' = Append(iterCmds, "brake")
    /\ actPc' = "drain"
    /\ UNCHANGED <<actTop, actHeld, drive_counter, actSeen, applyCount, enabledRun,
                   iterHit, iterPermit, iterTaken, iterTimeout>>
    /\ UNCHANGED <<steer_us, act_q, shared, actSeq, putFull>>
    /\ UNCHANGED <<ctlVars, sensorVars, infVars, vprVars>>
    /\ UNCHANGED <<snapVars, smoothVars, navVars, btnVars, pubVars>>

\* DropPending with the get_nowait left out.
DropPendingNothing(q) == q

\* Queue.get_nowait whose value is dropped: Empty is swallowed.
DropPending(q) == IF q = << >> THEN q ELSE Tail(q)

\* _act_loop: self.act_q.get_nowait() of the brake branch.
ActDrain ==
    /\ actPc = "drain"
    /\ act_q' = DropPending(act_q)
    /\ iterTaken' = iterTaken + Len(act_q) - Len(act_q')
    /\ actPc' = "top"
    /\ UNCHANGED <<actTop, actHeld, drive_counter, actSeen, applyCount, enabledRun,
                   iterHit, iterPermit, iterCmds, iterTimeout>>
    /\ UNCHANGED <<shared, actSeq, putFull>>
    /\ UNCHANGED <<ctlVars, sensorVars, pwmVars, infVars, vprVars>>
    /\ UNCHANGED <<snapVars, smoothVars, navVars, btnVars, pubVars>>

\* _act_loop: self.drive_enabled(), the line reading val.
ActSample(val) ==
    /\ actPc = "sample"
    /\ val = 1 => drive_counter < MaxCount
    /\ drive_counter' = DriveCounterNext(drive_counter, val)
    /\ enabledRun' = IF val = 1 THEN enabledRun + 1 ELSE 0
    /\ iterPermit' = IF DrivePermitted(drive_counter') THEN "yes" ELSE "no"
    /\ actPc' = IF DrivePermitted(drive_counter') THEN "get" ELSE "neutral"
    /\ UNCHANGED <<actTop, actHeld, actSeen, applyCount, iterHit, iterCmds, iterTaken,
                   iterTimeout>>
    /\ UNCHANGED <<act_q, shared, actSeq, putFull>>
    /\ UNCHANGED <<ctlVars, sensorVars, pwmVars, infVars, vprVars>>
    /\ UNCHANGED <<snapVars, smoothVars, navVars, btnVars, pubVars>>

\* _act_loop: self.act_q.get(timeout=0.1) returns an Action.
ActGet ==
    /\ actPc = "get"
    /\ act_q # << >>
    /\ actHeld' = Head(act_q)
    /\ act_q' = Tail(act_q)
    /\ actSeen' = actSeq
    /\ iterTaken' = iterTaken + 1
    /\ actPc' = "apply"
    /\ UNCHANGED <<actTop, drive_counter, applyCount, enabledRun, iterHit,
                   iterPermit, iterCmds, iterTimeout>>
    /\ UNCHANGED <<shared, actSeq, putFull>>
    /\ UNCHANGED <<ctlVars, sensorVars, pwmVars, infVars, vprVars>>
    /\ UNCHANGED <<snapVars, smoothVars, navVars, btnVars, pubVars>>

\* _act_loop: self.act_q.get(timeout=0.1) raises Empty; `except Empty: continue`
\* issues no command.
ActTimeout ==
    /\ actPc = "get"
    /\ act_q = << >>
    /\ iterTimeout' = TRUE
    /\ actPc' = "top"
    /\ UNCHANGED <<actTop, actHeld, drive_counter, actSeen, applyCount, enabledRun,
                   iterHit, iterPermit, iterCmds, iterTaken>>
    /\ UNCHANGED <<act_q, shared, actSeq, putFull>>
    /\ UNCHANGED <<ctlVars, sensorVars, pwmVars, infVars, vprVars>>
    /\ UNCHANGED <<snapVars, smoothVars, navVars, btnVars, pubVars>>

\* _act_loop: self.pwm.set_controls(throttle, steer)
ActApply ==
    /\ actPc = "apply"
    /\ throttle_us' = ThrottleUs(actHeld[2])
    /\ steer_us' = SteerUs(actHeld[3])
    /\ applyCount' = [applyCount EXCEPT ![actHeld[1]] = @ + 1]
    /\ iterCmds' = Append(iterCmds, "drive")
    /\ actHeld' = << >>
    /\ actSeen' = 0
    /\ actPc' = "top"
    /\ UNCHANGED <<actTop, drive_counter, enabledRun, iterHit,
                   iterPermit, iterTaken, iterTimeout>>
    /\ UNCHANGED <<act_q, shared, actSeq, putFull>>
    /\ UNCHANGED <<ctlVars, sensorVars, infVars, vprVars>>
    /\ UNCHANGED <<snapVars, smoothVars, navVars, btnVars, pubVars>>

\* _act_loop: self.pwm.set_controls(0, 0)
ActNeutral ==
    /\ actPc = "neutral"
    /\ throttle_us' = ThrottleUs(0)
    /\ steer_us' = SteerUs(0)
    /\ iterCmds' = Append(iterCmds, "neutral")
    /\ actPc' = "top"
    /\ UNCHANGED <<actTop, actHeld, drive_counter, actSeen, applyCount, enabledRun,
                   iterHit, iterPermit, iterTaken, iterTimeout>>
    /\ UNCHANGED <<act_q, shared, actSeq, putFull>>
    /\ UNCHANGED <<ctlVars, sensorVars, infVars, vprVars>>
    /\ UNCHANGED <<snapVars, smoothVars, navVars, btnVars, pubVars>>

\* ---------------------------------------------------------- inference unit
\* What an inference step leaves alone besides the unit's own fields.
InfFrame ==
    /\ UNCHANGED <<ctlVars, actVars, pwmVars, vprVars>>
    /\ UNCHANGED sensorPc
    /\ UNCHANGED <<snapVars, smoothVars, navVars, btnVars, pubVars>>

\* Subsystem.run: self.publish(status='initializing')
InfPublishInit(i) ==
    /\ infPc[i] = "start"
    /\ shared' = Put("inference", [status |-> "initializing"])
    /\ infPc' = [infPc EXCEPT ![i] = "init"]
    /\ UNCHANGED <<infStopEv, infReady, infObs, infAct>>
    /\ UNCHANGED <<obs_q, act_q, actSeq, putFull>>
    /\ InfFrame

\* Subsystem.run: init_hardware() (a no-op for Inference), _ready, publish ok.
InfInitDone(i) ==
    /\ infPc[i] = "init"
    /\ infReady' = [infReady EXCEPT ![i] = TRUE]
    /\ shared' = Put("inference", [status |-> "ok"])
    /\ infPc' = [infPc EXCEPT ![i] = "check"]
    /\ UNCHANGED <<infStopEv, infObs, infAct>>
    /\ UNCHANGED <<obs_q, act_q, actSeq, putFull>>
    /\ InfFrame

\* Subsystem.run: the while condition fails.
InfStopSeen(i) ==
    /\ infPc[i] = "check"
    /\ infStopEv[i]
    /\ infPc' = [infPc EXCEPT ![i] = "off"]
    /\ UNCHANGED <<infStopEv, infReady, infObs, infAct>>
    /\ UNCHANGED <<obs_q, act_q, actSeq, putFull, shared>>
    /\ InfFrame

\* Inference.loop: obs = self.obs_q.get_nowait() returns an observation.
InfGetObs(i) ==
    /\ infPc[i] = "check"
    /\ ~infStopEv[i]
    /\ obs_q # << >>
    /\ infObs' = [infObs EXCEPT ![i] = Head(obs_q)]
    /\ obs_q' = Tail(obs_q)
    /\ infPc' = [infPc EXCEPT ![i] = "drain"]
    /\ UNCHANGED <<infStopEv, infReady, infAct>>
    /\ UNCHANGED <<act_q, actSeq, putFull, shared>>
    /\ InfFrame

\* Inference.loop: the first get_nowait raises Empty: sleep and return.
InfGetEmpty(i) ==
    /\ infPc[i] = "check"
    /\ ~infStopEv[i]
    /\ obs_q = << >>
    /\ UNCHANGED <<infPc, infStopEv, infReady, infObs, infAct>>
    /\ UNCHANGED <<obs_q, act_q, actSeq, putFull, shared>>
    /\ InfFrame

\* Inference.loop: `while not self.obs_q.empty()` finds the queue empty.
InfDrainDone(i) ==
    /\ infPc[i] = "drain"
    /\ obs_q = << >>
    /\ infPc' = [infPc EXCEPT ![i] = "infer"]
    /\ UNCHANGED <<infStopEv, infReady, infObs, infAct>>
    /\ UNCHANGED <<obs_q, act_q, actSeq, putFull, shared>>
    /\ InfFrame

\* Inference.loop: `while not self.obs_q.empty()` finds a newer observation.
InfDrainMore(i) ==
    /\ infPc[i] = "drain"
    /\ obs_q # << >>
    /\ infPc' = [infPc EXCEPT ![i] = "drain_get"]
    /\ UNCHANGED <<infStopEv, infReady, infObs, infAct>>
    /\ UNCHANGED <<obs_q, act_q, actSeq, putFull, shared>>
    /\ InfFrame

\* Inference.loop: obs = self.obs_q.get_nowait() inside the while.  It returns
\* the observation, or raises Empty when another consumer took it since the
\* test: sleep and return, the observation held is dropped.
InfDrainGet(i) ==
    /\ infPc[i] = "drain_get"
    /\ IF obs_q # << >>
       THEN /\ infObs' = [infObs EXCEPT ![i] = Head(obs_q)]
            /\ obs_q' = Tail(obs_q)
            /\ infPc' = [infPc EXCEPT ![i] = "drain"]
       ELSE /\ infObs' = [infObs EXCEPT ![i] = << >>]
            /\ obs_q' = obs_q
            /\ infPc' = [infPc EXCEPT ![i] = "check"]
    /\ UNCHANGED <<infStopEv, infReady, infAct>>
    /\ UNCHANGED <<act_q, actSeq, putFull, shared>>
    /\ InfFrame

\* Inference.loop: the policy returns `out`; both outputs are clamped.
InfInfer(i, out) ==
    /\ infPc[i] = "infer"
    /\ infAct' = [infAct EXCEPT ![i] = <<Clamp(out[1]), Clamp(out[2])>>]
    /\ infPc' = [infPc EXCEPT ![i] = "drain_act"]
    /\ UNCHANGED <<infStopEv, infReady, infObs>>
    /\ UNCHANGED <<obs_q, act_q, actSeq, putFull, shared>>
    /\ InfFrame

\* Inference.loop raises while running the policy; Subsystem.run publishes
\* the error and breaks.
InfInferFail(i) ==
    /\ infPc[i] = "infer"
    /\ shared' = Put("inference", [status |-> "error", error |-> "policy"])
    /\ infPc' = [infPc EXCEPT ![i] = "off"]
    /\ infObs' = [infObs EXCEPT ![i] = << >>]
    /\ infAct' = [infAct EXCEPT ![i] = << >>]
    /\ UNCHANGED <<infStopEv, infReady>>
    /\ UNCHANGED <<obs_q, act_q, actSeq, putFull>>
    /\ InfFrame

\* ActDrained with the drain loop left out.
ActDrainedAlways(q) == TRUE

\* Inference.loop: `while not self.act_q.empty()` is over.
ActDrained(q) == q = << >>

\* Inference.loop: an unread Action is taken off act_q and discarded.
InfDrainActTake(i) ==
    /\ infPc[i] = "drain_act"
    /\ ~ActDrained(act_q)
    /\ act_q' = Tail(act_q)
    /\ UNCHANGED <<infPc, infStopEv, infReady, infObs, infAct>>
    /\ UNCHANGED <<obs_q, actSeq, putFull, shared>>
    /\ InfFrame

\* Inference.loop: act_q is empty, on to the put.
InfDrainActDone(i) ==
    /\ infPc[i] = "drain_act"
    /\ ActDrained(act_q)
    /\ infPc' = [infPc EXCEPT ![i] = "put"]
    /\ UNCHANGED <<infStopEv, infReady, infObs, infAct>>
    /\ UNCHANGED <<obs_q, act_q, actSeq, putFull, shared>>
    /\ InfFrame

\* Queue.put_nowait on the capacity-1 action channel raises Full.
ActFull(q) == Len(q) >= 1

\* Inference.loop: self.act_q.put_nowait((throttle, steer)).  When it raises
\* Full, Subsystem.run publishes the error and breaks.
InfPut(i) ==
    /\ infPc[i] = "put"
    /\ actSeq < MaxAct
    /\ IF ActFull(act_q)
       THEN /\ putFull' = TRUE
            /\ shared' = Put("inference", [status |-> "error", error |-> "Full"])
            /\ infPc' = [infPc EXCEPT ![i] = "off"]
            /\ infObs' = [infObs EXCEPT ![i] = << >>]
            /\ infAct' = [infAct EXCEPT ![i] = << >>]
            /\ UNCHANGED <<act_q, actSeq>>
       ELSE /\ actSeq' = actSeq + 1
            /\ act_q' = Append(act_q, <<actSeq + 1, infAct[i][1], infAct[i][2]>>)
            /\ infPc' = [infPc EXCEPT ![i] = "publish"]
            /\ UNCHANGED <<infObs, infAct, putFull, shared>>
    /\ UNCHANGED <<infStopEv, infReady, obs_q>>
    /\ InfFrame

\* Inference.loop: self.publish(throttle=, steering=, loop="running"); sleep;
\* loop() returns and its locals are gone.
InfPublish(i) ==
    /\ infPc[i] = "publish"
    /\ shared' = Put("inference", [throttle |-> "float", steering |-> "float",
                                   loop |-> "running"])
    /\ infPc' = [infPc EXCEPT ![i] = "check"]
    /\ infObs' = [infObs EXCEPT ![i] = << >>]
    /\ infAct' = [infAct EXCEPT ![i] = << >>]
    /\ UNCHANGED <<infStopEv, infReady>>
    /\ UNCHANGED <<obs_q, act_q, actSeq, putFull>>
    /\ InfFrame

\* Subsystem.run: self.publish(status='off'); the thread ends.
InfOff(i) ==
    /\ infPc[i] = "off"
    /\ shared' = Put("inference", [status |-> "off"])
    /\ infPc' = [infPc EXCEPT ![i] = "dead"]
    /\ UNCHANGED <<infStopEv, infReady, infObs, infAct>>
    /\ UNCHANGED <<obs_q, act_q, actSeq, putFull>>
    /\ InfFrame

\* A loop() call that does not return: the unit stops doing anything and
\* never looks at its stop event again.
InfHang(i) ==
    /\ infPc[i] = "check"
    /\ infPc' = [infPc EXCEPT ![i] = "hung"]
    /\ UNCHANGED <<infStopEv, infReady, infObs, infAct>>
    /\ UNCHANGED <<obs_q, act_q, actSeq, putFull, shared>>
    /\ InfFrame

\* --------------------------------------------- start_inference, stop_inference
\* The unit slots free for a new Inference object: never used, or holding an
\* object whose thread is not running (never started, or ended).
FreeSlots == {i \in Units : ~IsAlive(i)}

\* The slot a new Inference object takes.
NewSlot == CHOOSE i \in FreeSlots : \A j \in FreeSlots : i <= j

\* A fresh Inference object in slot n, its thread at `pc`.
NewUnit(n, pc) ==
    /\ infPc' = [infPc EXCEPT ![n] = pc]
    /\ infStopEv' = [infStopEv EXCEPT ![n] = FALSE]
    /\ infReady' = [infReady EXCEPT ![n] = FALSE]

\* What a controller call leaves alone besides the controller's own fields.
CallFrame ==
    /\ UNCHANGED <<sensorVars, actVars, vprPc, vprImg, pred_hist, vpr_image>>
    /\ UNCHANGED <<infReady, infObs, infAct, act_q, actSeq, putFull>>
    /\ UNCHANGED <<snapVars, smoothVars, navVars, btnVars, pubVars>>
    /\ UNCHANGED vprLog

\* The same for start_inference, which makes the unit's fields.
StartFrame ==
    /\ UNCHANGED <<sensorVars, actVars, vprPc, vprImg, pred_hist, vpr_image>>
    /\ UNCHANGED <<infObs, infAct, act_q, actSeq, putFull>>
    /\ UNCHANGED <<snapVars, smoothVars, navVars, btnVars, pubVars>>
    /\ UNCHANGED vprLog

\* Controller.start_inference: `if self.inf and self.inf.is_running: return`
StartInfNoop ==
    /\ inf # 0
    /\ IsRunning(inf)
    /\ UNCHANGED vars

\* Controller.start_inference: a unit is created, its model loads, it starts.
StartInfOk ==
    /\ ~(inf # 0 /\ IsRunning(inf))
    /\ FreeSlots # {}
    /\ inf' = NewSlot
    /\ NewUnit(NewSlot, "start")
    /\ UNCHANGED <<stop_ev, stop_region, t_vpr, vpr_loop_ev, btnPc, callPc, released,
                   recStopEv, flagSets, signalled>>
    /\ UNCHANGED <<pwmVars, shared, top_k, vprStopEv>>
    /\ StartFrame

\* Controller.start_inference: a unit is created and load_model raises; the
\* unit stays referenced by self.inf and is never started.
StartInfFail ==
    /\ ~(inf # 0 /\ IsRunning(inf))
    /\ FreeSlots # {}
    /\ inf' = NewSlot
    /\ NewUnit(NewSlot, "new")
    /\ UNCHANGED <<stop_ev, stop_region, t_vpr, vpr_loop_ev, btnPc, callPc, released,
                   recStopEv, flagSets, signalled>>
    /\ UNCHANGED <<pwmVars, shared, top_k, vprStopEv>>
    /\ StartFrame

\* Where caller c is when it enters stop_inference, and where it goes after.
StopInfEntry(c) == IF c = "estop" THEN "idle" ELSE "si_begin"
StopInfReturn(c) == IF c = "estop" THEN "idle" ELSE "stop_vpr"

\* Controller.stop_inference: `if self.inf:` fails.
StopInfNone(c) ==
    /\ callPc[c] = StopInfEntry(c)
    /\ inf = 0
    /\ callPc' = [callPc EXCEPT ![c] = StopInfReturn(c)]
    /\ signalled' = signalled \cup {"inference"}
    /\ UNCHANGED <<stop_ev, stop_region, inf, t_vpr, vpr_loop_ev, btnPc, released,
                   recStopEv, flagSets>>
    /\ UNCHANGED <<infPc, infStopEv, pwmVars, shared, top_k, vprStopEv>>
    /\ CallFrame

\* Controller.stop_inference: self.inf.shutdown()
StopInfSignal(c) ==
    /\ callPc[c] = StopInfEntry(c)
    /\ inf # 0
    /\ infStopEv' = [infStopEv EXCEPT ![inf] = TRUE]
    /\ signalled' = signalled \cup {"inference"}
    /\ callPc' = [callPc EXCEPT ![c] = "si_join"]
    /\ UNCHANGED <<stop_ev, stop_region, inf, t_vpr, vpr_loop_ev, btnPc, released,
                   recStopEv, flagSets>>
    /\ UNCHANGED <<infPc, pwmVars, shared, top_k, vprStopEv>>
    /\ CallFrame

\* threading.Thread.join() with no timeout can return: the thread has ended.
JoinReturns(i) == infPc[i] = "dead"

\* Controller.stop_inference: self.inf.join() returns.
StopInfJoin(c) ==
    /\ callPc[c] = "si_join"
    /\ JoinReturns(inf)
    /\ callPc' = [callPc EXCEPT ![c] = "si_brake"]
    /\ UNCHANGED <<stop_ev, stop_region, inf, t_vpr, vpr_loop_ev, btnPc, released,
                   recStopEv, flagSets, signalled>>
    /\ UNCHANGED <<infPc, infStopEv, pwmVars, shared, top_k, vprStopEv>>
    /\ CallFrame

\* Controller.stop_inference: self.inf.join() on a thread that was never
\* started raises RuntimeError, which nothing on the way up catches.
StopInfJoinUnstarted(c) ==
    /\ callPc[c] = "si_join"
    /\ infPc[inf] = "new"
    /\ callPc' = [callPc EXCEPT ![c] = "raised"]
    /\ UNCHANGED <<stop_ev, stop_region, inf, t_vpr, vpr_loop_ev, btnPc, released,
                   recStopEv, flagSets, signalled>>
    /\ UNCHANGED <<infPc, infStopEv, pwmVars, shared, top_k, vprStopEv>>
    /\ CallFrame

\* Controller.stop_inference: self.pwm.hard_brake()
StopInfBrake(c) ==
    /\ callPc[c] = "si_brake"
    /\ throttle_us' = THROTTLE_BRAKE_US
    /\ callPc' = [callPc EXCEPT ![c] = "si_neutral"]
    /\ UNCHANGED <<stop_ev, stop_region, inf, t_vpr, vpr_loop_ev, btnPc, released,
                   recStopEv, flagSets, signalled>>
    /\ UNCHANGED <<infPc, infStopEv, steer_us, shared, top_k, vprStopEv>>
    /\ CallFrame

\* Controller.stop_inference: self.pwm.set_controls(0, 0)
StopInfNeutral(c) ==
    /\ callPc[c] = "si_neutral"
    /\ throttle_us' = ThrottleUs(0)
    /\ steer_us' = SteerUs(0)
    /\ callPc' = [callPc EXCEPT ![c] = StopInfReturn(c)]
    /\ UNCHANGED <<stop_ev, stop_region, inf, t_vpr, vpr_loop_ev, btnPc, released,
                   recStopEv, flagSets, signalled>>
    /\ UNCHANGED <<infPc, infStopEv, shared, top_k, vprStopEv>>
    /\ CallFrame

\* ----------------------------------------------- stop region and VPR feed loop
\* A _start_vpr_loop that flips the stop event of a loop that is running.
StartVprLoopFlipsEvent(t, ev) == IF t = "alive" THEN <<t, ~ev>> ELSE <<"alive", FALSE>>

\* Controller._start_vpr_loop on the thread state t and the stop event ev: a
\* thread that is alive is left as it is, event included.
StartVprLoop(t, ev) == IF t = "alive" THEN <<t, ev>> ELSE <<"alive", FALSE>>

\* Controller._stop_vpr_loop: the event is set; join(timeout=0.2) returns
\* whether or not the feed loop has ended by then.
StopVprLoop(t, ev) == IF t = "alive" THEN <<t, TRUE>> ELSE <<t, ev>>

\* The fields set_stop_region works on.
StopRegionState ==
    [stop_region |-> stop_region, t_vpr |-> t_vpr, vpr_loop_ev |-> vpr_loop_ev,
     top_k |-> top_k]

\* Controller.set_stop_region(region) on those fields.
AfterSetStopRegion(region, st) ==
    IF region # NoRegion
    THEN [st EXCEPT !.stop_region = region,
                    !.t_vpr = StartVprLoop(st.t_vpr, st.vpr_loop_ev)[1],
                    !.vpr_loop_ev = StartVprLoop(st.t_vpr, st.vpr_loop_ev)[2]]
    ELSE [st EXCEPT !.stop_region = NoRegion,
                    !.top_k = ZeroTopK,
                    !.t_vpr = StopVprLoop(st.t_vpr, st.vpr_loop_ev)[1],
                    !.vpr_loop_ev = StopVprLoop(st.t_vpr, st.vpr_loop_ev)[2]]

\* Controller.set_stop_region(region), region not None: _start_vpr_loop().
SetStopRegion(region) ==
    /\ stop_region' = AfterSetStopRegion(region, StopRegionState).stop_region
    /\ t_vpr' = AfterSetStopRegion(region, StopRegionState).t_vpr
    /\ vpr_loop_ev' = AfterSetStopRegion(region, StopRegionState).vpr_loop_ev
    /\ UNCHANGED <<stop_ev, inf, btnPc, callPc, released, recStopEv, flagSets, signalled>>
    /\ UNCHANGED <<infPc, infStopEv, pwmVars, shared, top_k, vprStopEv>>
    /\ CallFrame

\* Controller.set_stop_region(None): vpr.clear(), _stop_vpr_loop().  The
\* join(timeout=0.2) of _stop_vpr_loop returns whether or not the feed loop has
\* ended by then: the call is over here, and FeedExit comes when it comes.
ClearStopRegion ==
    /\ stop_region' = AfterSetStopRegion(NoRegion, StopRegionState).stop_region
    /\ top_k' = AfterSetStopRegion(NoRegion, StopRegionState).top_k
    /\ shared' = Put("vpr", [top_regions |-> ZeroTopK])
    /\ vpr_loop_ev' = AfterSetStopRegion(NoRegion, StopRegionState).vpr_loop_ev
    /\ UNCHANGED <<stop_ev, inf, t_vpr, btnPc, callPc, released, recStopEv, flagSets,
                   signalled>>
    /\ UNCHANGED <<infPc, infStopEv, pwmVars, vprStopEv>>
    /\ CallFrame

\* What a step of the VPR feed loop or of the VPR thread leaves alone.
VprFrame ==
    /\ UNCHANGED <<stop_ev, stop_region, inf, btnPc, callPc, released, recStopEv,
                   flagSets, signalled>>
    /\ UNCHANGED <<sensorVars, actVars, pwmVars, infVars>>
    /\ UNCHANGED <<act_q, actSeq, putFull>>
    /\ UNCHANGED <<snapVars, smoothVars, navVars, btnVars, pubVars>>

\* Controller._vpr_loop: one iteration, the camera returning frame f.
FeedFrame(f) ==
    /\ t_vpr = "alive"
    /\ ~vpr_loop_ev
    /\ vpr_image' = f
    /\ UNCHANGED <<t_vpr, vpr_loop_ev, vprPc, vprStopEv, vprImg, pred_hist, top_k, shared>>
    /\ VprFrame
    /\ UNCHANGED vprLog

\* Controller._vpr_loop: the while condition fails.
FeedExit ==
    /\ t_vpr = "alive"
    /\ vpr_loop_ev
    /\ t_vpr' = "dead"
    /\ UNCHANGED <<vpr_loop_ev, vprPc, vprStopEv, vpr_image, vprImg, pred_hist, top_k,
                   shared>>
    /\ VprFrame
    /\ UNCHANGED vprLog

\* ------------------------------------------------------------------ VPRSystem
\* Subsystem.run: self.publish(status='initializing')
VprPublishInit ==
    /\ vprPc = "start"
    /\ shared' = Put("vpr", [status |-> "initializing"])
    /\ vprPc' = "init"
    /\ UNCHANGED <<t_vpr, vpr_loop_ev, vprStopEv, vpr_image, vprImg, pred_hist, top_k>>
    /\ VprFrame
    /\ vprLog' = Append(vprLog, "initializing")

\* Subsystem.run: VPRSystem.init_hardware() returns; publish ok.
VprInitDone ==
    /\ vprPc = "init"
    /\ pred_hist' = << >>
    /\ shared' = Put("vpr", [status |-> "ok"])
    /\ vprPc' = "check"
    /\ UNCHANGED <<t_vpr, vpr_loop_ev, vprStopEv, vpr_image, vprImg, top_k>>
    /\ VprFrame
    /\ vprLog' = Append(vprLog, "ok")

\* Subsystem.run when init_hardware raised, with the `return` of the except
\* branch replaced by a fall through to the end of run().
InitFailFallsThrough == "failed"

\* Subsystem.run: where the thread is after the except branch of the init
\* block: `return`, the thread has ended.
InitFailPc == "dead"

\* Subsystem.run: VPRSystem.init_hardware() raises (the model or the embedding
\* file cannot be loaded); publish error; return.
VprInitFail ==
    /\ vprPc = "init"
    /\ shared' = Put("vpr", [status |-> "error", error |-> "init"])
    /\ vprLog' = Append(vprLog, "error")
    /\ vprPc' = InitFailPc
    /\ UNCHANGED <<t_vpr, vpr_loop_ev, vprStopEv, vpr_image, vprImg, pred_hist, top_k>>
    /\ VprFrame

\* Subsystem.run: self.loop() raises while the frame is embedded and matched;
\* publish error; break.
VprLoopFail ==
    /\ vprPc = "proc"
    /\ shared' = Put("vpr", [status |-> "error", error |-> "loop"])
    /\ vprLog' = Append(vprLog, "error")
    /\ vprImg' = None
    /\ vprPc' = "failed"
    /\ UNCHANGED <<t_vpr, vpr_loop_ev, vprStopEv, vpr_image, pred_hist, top_k>>
    /\ VprFrame

\* Subsystem.run: after the break, self.publish(status='off'); the thread ends.
VprOff ==
    /\ vprPc = "failed"
    /\ shared' = Put("vpr", [status |-> "off"])
    /\ vprLog' = Append(vprLog, "off")
    /\ vprPc' = "dead"
    /\ UNCHANGED <<t_vpr, vpr_loop_ev, vprStopEv, vpr_image, vprImg, pred_hist, top_k>>
    /\ VprFrame

\* Subsystem.shutdown with the set() left out.
ShutdownNothing(ev) == ev

\* Subsystem.shutdown: self._stop_event.set()
Shutdown(ev) == TRUE

\* vpr.shutdown() called by any thread, at any time after vpr.start().
VprShutdown ==
    /\ "vpr" \notin signalled
    /\ vprStopEv' = Shutdown(vprStopEv)
    /\ signalled' = signalled \cup {"vpr"}
    /\ UNCHANGED <<stop_ev, stop_region, inf, t_vpr, vpr_loop_ev, btnPc, callPc, released,
                   recStopEv, flagSets>>
    /\ UNCHANGED <<vprPc, vpr_image, vprImg, pred_hist, top_k, vprLog, shared>>
    /\ UNCHANGED <<sensorVars, actVars, pwmVars, infVars, snapVars, smoothVars, navVars, btnVars, pubVars>>
    /\ UNCHANGED <<act_q, actSeq, putFull>>

\* ---------------------------------------------------------------- SharedState
\* SharedState.snapshot returning self._data itself.
SnapshotAlias(data) == [kind |-> "alias"]

\* SharedState.snapshot: copy.deepcopy(self._data), taken under the lock that
\* put() holds for its one assignment.
Snapshot(data) == [kind |-> "copy", data |-> data]

\* What the holder of a snapshot reads in it now.
View(sn) == IF sn.kind = "alias" THEN shared ELSE sn.data

\* Controller.get_status(): self.state.snapshot()
GetStatus ==
    /\ snap' = Snapshot(shared)
    /\ snapTaken' = shared
    /\ UNCHANGED <<smoothVars, navVars, btnVars, pubVars>>
    /\ UNCHANGED <<ctlVars, sensorVars, actVars, pwmVars, infVars, vprVars>>
    /\ UNCHANGED <<act_q, actSeq, putFull, shared>>

\* Subsystem.run: the while condition fails; publish off.
VprExit ==
    /\ vprPc = "check"
    /\ vprStopEv
    /\ shared' = Put("vpr", [status |-> "off"])
    /\ vprPc' = "dead"
    /\ UNCHANGED <<t_vpr, vpr_loop_ev, vprStopEv, vpr_image, vprImg, pred_hist, top_k>>
    /\ VprFrame
    /\ vprLog' = Append(vprLog, "off")

\* VPRSystem.loop: no frame is pending; sleep and return.
VprIdle ==
    /\ vprPc = "check"
    /\ ~vprStopEv
    /\ vpr_image = None
    /\ UNCHANGED <<t_vpr, vpr_loop_ev, vprPc, vprStopEv, vpr_image, vprImg, pred_hist,
                   top_k, shared>>
    /\ VprFrame
    /\ UNCHANGED vprLog

\* A take that leaves the frame pending.
VprTakeKeepsPending ==
    /\ vprPc = "check"
    /\ ~vprStopEv
    /\ vpr_image # None
    /\ vprImg' = vpr_image
    /\ vprPc' = "proc"
    /\ UNCHANGED <<t_vpr, vpr_loop_ev, vprStopEv, vpr_image, pred_hist, top_k, shared>>
    /\ VprFrame
    /\ UNCHANGED vprLog

\* VPRSystem.loop: img, self._image = self._image, None
VprTake ==
    /\ vprPc = "check"
    /\ ~vprStopEv
    /\ vpr_image # None
    /\ vprImg' = vpr_image
    /\ vpr_image' = None
    /\ vprPc' = "proc"
    /\ UNCHANGED <<t_vpr, vpr_loop_ev, vprStopEv, pred_hist, top_k, shared>>
    /\ VprFrame
    /\ UNCHANGED vprLog

\* VPRSystem.loop: embed, match, push into the window, smooth, store _top_k.
VprStore ==
    /\ vprPc = "proc"
    /\ pred_hist' = PushWindow(pred_hist, FrameTop(vprImg))
    /\ top_k' = Smooth(pred_hist')
    /\ vprImg' = None
    /\ vprPc' = "pub"
    /\ UNCHANGED <<t_vpr, vpr_loop_ev, vprStopEv, vpr_image, shared>>
    /\ VprFrame
    /\ UNCHANGED vprLog

\* VPRSystem.loop: self.publish(top_regions=self._top_k)
VprPublish ==
    /\ vprPc = "pub"
    /\ shared' = Put("vpr", [top_regions |-> top_k])
    /\ vprPc' = "check"
    /\ UNCHANGED <<t_vpr, vpr_loop_ev, vprStopEv, vpr_image, vprImg, pred_hist, top_k>>
    /\ VprFrame
    /\ UNCHANGED vprLog

\* VPRSystem.loop on a pending frame f, from the take to the publish, with no
\* other thread in between.
SmoothStep(f) ==
    /\ vprPc = "check"
    /\ Len(frameLog) < MaxFrames
    /\ pred_hist' = PushWindow(pred_hist, FrameTop(f))
    /\ top_k' = Smooth(pred_hist')
    /\ shared' = Put("vpr", [top_regions |-> top_k'])
    /\ frameLog' = Append(frameLog, f)
    /\ UNCHANGED <<t_vpr, vpr_loop_ev, vprPc, vprStopEv, vpr_image, vprImg, vprLog, clearAt>>
    /\ UNCHANGED <<stop_ev, stop_region, inf, btnPc, callPc, released, recStopEv,
                   flagSets, signalled>>
    /\ UNCHANGED <<sensorVars, actVars, pwmVars, infVars, snapVars, navVars, btnVars, pubVars>>
    /\ UNCHANGED <<act_q, actSeq, putFull>>

\* VPRSystem.clear: _top_k is zeroed and published; pred_hist is not touched.
VprClear ==
    /\ top_k' = ZeroTopK
    /\ shared' = Put("vpr", [top_regions |-> ZeroTopK])
    /\ clearAt' = Len(frameLog)
    /\ UNCHANGED <<t_vpr, vpr_loop_ev, vprPc, vprStopEv, vpr_image, vprImg, vprLog,
                   pred_hist, frameLog>>
    /\ UNCHANGED <<stop_ev, stop_region, inf, btnPc, callPc, released, recStopEv,
                   flagSets, signalled>>
    /\ UNCHANGED <<sensorVars, actVars, pwmVars, infVars, snapVars, navVars, btnVars, pubVars>>
    /\ UNCHANGED <<act_q, actSeq, putFull>>

\* ---------------------------------------- loop and clear, statement by statement
\* What a statement of loop's or clear's publish leaves alone.
PubFrame ==
    /\ UNCHANGED <<stop_ev, inf, btnPc, callPc, released, recStopEv, flagSets, signalled>>
    /\ UNCHANGED <<sensorVars, actVars, pwmVars, infVars>>
    /\ UNCHANGED <<act_q, actSeq, putFull>>
    /\ UNCHANGED <<snapVars, smoothVars, navVars, btnVars>>
    /\ UNCHANGED <<vprStopEv, vpr_image, vprImg, pred_hist, vprLog, t_vpr>>

\* VPRSystem.loop: the argument of self.publish(top_regions=self._top_k) is
\* read, outside the lock.
VprPublishArg ==
    /\ vprPc = "pub"
    /\ pubArg' = top_k
    /\ vprPc' = "put"
    /\ UNCHANGED <<stop_region, vpr_loop_ev, top_k, shared, clrPc, clrArg>>
    /\ PubFrame

\* VPRSystem.loop: Subsystem.publish, self.state.put(self.name, **kv)
VprPublishPut ==
    /\ vprPc = "put"
    /\ shared' = Put("vpr", [top_regions |-> pubArg])
    /\ pubArg' = << >>
    /\ vprPc' = "check"
    /\ UNCHANGED <<stop_region, vpr_loop_ev, top_k, clrPc, clrArg>>
    /\ PubFrame

\* Controller.set_stop_region(None): self.stop_region = None; VPRSystem.clear:
\* _top_k is zeroed under the lock.
ClearZero ==
    /\ clrPc = "idle"
    /\ stop_region' = NoRegion
    /\ top_k' = ZeroTopK
    /\ clrPc' = "arg"
    /\ UNCHANGED <<vpr_loop_ev, vprPc, shared, pubArg, clrArg>>
    /\ PubFrame

\* VPRSystem.clear: the argument of self.publish(top_regions=self._top_k) is
\* read, outside the lock.
ClearArg ==
    /\ clrPc = "arg"
    /\ clrArg' = top_k
    /\ clrPc' = "put"
    /\ UNCHANGED <<stop_region, vpr_loop_ev, vprPc, top_k, shared, pubArg>>
    /\ PubFrame

\* VPRSystem.clear: Subsystem.publish; then Controller._stop_vpr_loop().
ClearPut ==
    /\ clrPc = "put"
    /\ shared' = Put("vpr", [top_regions |-> clrArg])
    /\ vpr_loop_ev' = StopVprLoop(t_vpr, vpr_loop_ev)[2]
    /\ clrArg' = << >>
    /\ clrPc' = "idle"
    /\ UNCHANGED <<stop_region, vprPc, top_k, pubArg>>
    /\ PubFrame

\* ------------------------------------------------------------- button loop
\* Controller._btn_loop: the while condition fails.
BtnExit ==
    /\ btnPc = "run"
    /\ stop_ev
    /\ btnPc' = "done"
    /\ UNCHANGED <<stop_ev, stop_region, inf, t_vpr, vpr_loop_ev, callPc, released,
                   recStopEv, flagSets, signalled>>
    /\ UNCHANGED <<sensorVars, actVars, pwmVars, infVars, vprVars>>
    /\ UNCHANGED <<act_q, actSeq, putFull, shared>>
    /\ UNCHANGED <<snapVars, smoothVars, navVars, btnVars, pubVars>>

\* Queue(maxsize=2)
RecQueueSize == 2

\* What the button loop does on a falling edge: camera.get_frame() returned
\* `frame` (None before the first capture), `if frame:` and put_nowait with
\* Full swallowed.
EdgeOutcome(q, frame) ==
    IF frame = None THEN "noframe"
    ELSE IF Len(q) >= RecQueueSize THEN "full"
    ELSE "sent"

\* Controller._btn_loop, one iteration: the line reads val, the camera holds
\* frame.
BtnPoll(val, frame) ==
    /\ btnPc = "run"
    /\ ~stop_ev
    /\ IF val = 0 /\ prev = 1
       THEN /\ Len(btnLog) < MaxPress
            /\ btnLog' = Append(btnLog, EdgeOutcome(rec_q, frame))
            /\ rec_q' = (IF EdgeOutcome(rec_q, frame) = "sent"
                         THEN Append(rec_q, frame) ELSE rec_q)
       ELSE UNCHANGED <<rec_q, btnLog>>
    /\ prev' = val
    /\ UNCHANGED <<ctlVars, sensorVars, actVars, pwmVars, infVars, vprVars>>
    /\ UNCHANGED <<act_q, actSeq, putFull, shared>>
    /\ UNCHANGED <<snapVars, smoothVars, navVars, pubVars>>

\* Controller._btn_loop: self._btn_line.get_value() or camera.get_frame()
\* raises.  The loop has a handler for queue.Full only: the exception leaves
\* the thread's target and the thread ends.
BtnFault ==
    /\ btnPc = "run"
    /\ ~stop_ev
    /\ btnPc' = "dead"
    /\ UNCHANGED <<stop_ev, stop_region, inf, t_vpr, vpr_loop_ev, callPc, released,
                   recStopEv, flagSets, signalled>>
    /\ UNCHANGED <<sensorVars, actVars, pwmVars, infVars, vprVars>>
    /\ UNCHANGED <<act_q, actSeq, putFull, shared>>
    /\ UNCHANGED <<snapVars, smoothVars, navVars, btnVars, pubVars>>

\* Controller._act_loop: drive_enabled() or set_controls() raises;
\* `except Exception` prints it and the loop goes to its next iteration.
ActFault ==
    /\ actPc \in {"sample", "neutral"}
    /\ actPc' = "top"
    /\ UNCHANGED <<actTop, actHeld, drive_counter, actSeen, applyCount, enabledRun,
                   iterHit, iterPermit, iterCmds, iterTaken, iterTimeout>>
    /\ UNCHANGED <<act_q, shared, actSeq, putFull>>
    /\ UNCHANGED <<ctlVars, sensorVars, pwmVars, infVars, vprVars>>
    /\ UNCHANGED <<snapVars, smoothVars, navVars, btnVars, pubVars>>

\* Controller._vpr_loop: camera.get_frame() or vpr.set_image() raises; the
\* handler prints it and the loop sleeps and goes on.
FeedFault ==
    /\ t_vpr = "alive"
    /\ ~vpr_loop_ev
    /\ UNCHANGED vars

\* The commands set_controls is called with: throttle and steering in [-1, 1],
\* in tenths.
CommandValues == -10..10

\* What a call of the PWM driver leaves alone.
PwmFrame ==
    /\ UNCHANGED <<ctlVars, sensorVars, actVars, infVars, vprVars>>
    /\ UNCHANGED <<act_q, actSeq, putFull, shared>>
    /\ UNCHANGED <<snapVars, smoothVars, navVars, btnVars, pubVars>>

\* PWMController.set_controls(throttle, steering)
PwmSetControls(throttle, steering) ==
    /\ throttle_us' = ThrottleUs(throttle)
    /\ steer_us' = SteerUs(steering)
    /\ PwmFrame

\* PWMController.hard_brake() with the default hold_s = 0.0
PwmHardBrake ==
    /\ throttle_us' = THROTTLE_BRAKE_US
    /\ UNCHANGED steer_us
    /\ PwmFrame

\* PWMController.cleanup(), as far as the pulse widths go: hard_brake with a
\* hold, which ends neutral, and the steering centred.
PwmCleanup ==
    /\ throttle_us' = THROTTLE_NEUTRAL
    /\ steer_us' = STEER_CENTER
    /\ PwmFrame

\* ImageRecognizer.loop: self.in_q.get(timeout=0.1) returns a frame.
RecTake ==
    /\ ~recStopEv
    /\ rec_q # << >>
    /\ rec_q' = Tail(rec_q)
    /\ UNCHANGED <<prev, btnLog>>
    /\ UNCHANGED <<ctlVars, sensorVars, actVars, pwmVars, infVars, vprVars>>
    /\ UNCHANGED <<act_q, actSeq, putFull, shared>>
    /\ UNCHANGED <<snapVars, smoothVars, navVars, pubVars>>

\* ------------------------------------------------------------- shutdown_all
\* What a step of shutdown_all leaves alone besides what it names.
ShutFrame ==
    /\ UNCHANGED <<sensorVars, actVars, infVars>>
    /\ UNCHANGED <<vprPc, vpr_image, vprImg, pred_hist, top_k>>
    /\ UNCHANGED <<act_q, actSeq, putFull, shared, stop_region, inf, btnPc>>
    /\ UNCHANGED <<snapVars, smoothVars, navVars, btnVars, pubVars>>
    /\ UNCHANGED vprLog

\* shutdown_all: `if self.stop_ev.is_set(): return`
ShutCheckReturn(c) ==
    /\ callPc[c] = "idle"
    /\ stop_ev
    /\ callPc' = [callPc EXCEPT ![c] = "returned"]
    /\ UNCHANGED <<stop_ev, t_vpr, vpr_loop_ev, released, recStopEv, flagSets, signalled,
                   vprStopEv, pwmVars>>
    /\ ShutFrame

\* shutdown_all: the flag is found clear; the body follows.
ShutCheckPass(c) ==
    /\ callPc[c] = "idle"
    /\ ~stop_ev
    /\ callPc' = [callPc EXCEPT ![c] = "set"]
    /\ UNCHANGED <<stop_ev, t_vpr, vpr_loop_ev, released, recStopEv, flagSets, signalled,
                   vprStopEv, pwmVars>>
    /\ ShutFrame

\* shutdown_all: self.stop_ev.set(), the stop signal of the sensor, actuation
\* and button loops.
ShutSet(c) ==
    /\ callPc[c] = "set"
    /\ stop_ev' = TRUE
    /\ flagSets' = flagSets + 1
    /\ signalled' = signalled \cup {"sensor", "act", "button"}
    /\ callPc' = [callPc EXCEPT ![c] = "si_begin"]
    /\ UNCHANGED <<t_vpr, vpr_loop_ev, released, recStopEv, vprStopEv, pwmVars>>
    /\ ShutFrame

\* shutdown_all: self.t_act.join(timeout=0.2), which returns whatever the
\* actuation loop does, then self._stop_vpr_loop().
ShutStopVpr(c) ==
    /\ callPc[c] = "stop_vpr"
    /\ vpr_loop_ev' = (IF t_vpr = "alive" THEN TRUE ELSE vpr_loop_ev)
    /\ signalled' = signalled \cup {"feed"}
    /\ callPc' = [callPc EXCEPT ![c] = "rec"]
    /\ UNCHANGED <<stop_ev, t_vpr, released, recStopEv, flagSets, vprStopEv, pwmVars>>
    /\ ShutFrame

\* shutdown_all: self.recognizer.shutdown(), then self.t_btn.join(timeout=0.2).
ShutRecognizer(c) ==
    /\ callPc[c] = "rec"
    /\ recStopEv' = TRUE
    /\ signalled' = signalled \cup {"recognizer"}
    /\ callPc' = [callPc EXCEPT ![c] = "cl_brake"]
    /\ UNCHANGED <<stop_ev, t_vpr, vpr_loop_ev, released, flagSets, vprStopEv, pwmVars>>
    /\ ShutFrame

\* PWMController.cleanup: hard_brake(BRAKE_HOLD_S) writes the brake value and
\* holds it.
ShutCleanupBrake(c) ==
    /\ callPc[c] = "cl_brake"
    /\ throttle_us' = THROTTLE_BRAKE_US
    /\ callPc' = [callPc EXCEPT ![c] = "cl_neutral"]
    /\ UNCHANGED <<stop_ev, t_vpr, vpr_loop_ev, released, recStopEv, flagSets, signalled,
                   vprStopEv, steer_us>>
    /\ ShutFrame

\* PWMController.cleanup: hard_brake, after the hold, writes neutral.
ShutCleanupNeutral(c) ==
    /\ callPc[c] = "cl_neutral"
    /\ throttle_us' = THROTTLE_NEUTRAL
    /\ callPc' = [callPc EXCEPT ![c] = "cl_steer"]
    /\ UNCHANGED <<stop_ev, t_vpr, vpr_loop_ev, released, recStopEv, flagSets, signalled,
                   vprStopEv, steer_us>>
    /\ ShutFrame

\* PWMController.cleanup: the steering is centred.
ShutCleanupSteer(c) ==
    /\ callPc[c] = "cl_steer"
    /\ steer_us' = STEER_CENTER
    /\ callPc' = [callPc EXCEPT ![c] = "cl_disable"]
    /\ UNCHANGED <<stop_ev, t_vpr, vpr_loop_ev, released, recStopEv, flagSets, signalled,
                   vprStopEv, throttle_us>>
    /\ ShutFrame

\* The hardware released by shutdown_all, in the order of the code, with the
\* place of the caller before and after each release.
ReleaseSteps ==
    { <<"cl_disable", "pwm", "lidar">>,
      <<"lidar", "lidar", "imu">>,
      <<"imu", "imu", "camera">>,
      <<"camera", "camera", "vpr_shutdown">>,
      <<"gpio", "gpio", "done">> }

\* shutdown_all: one hardware resource is released (PWM outputs disabled and
\* closed, lidar closed, IMU and camera shut down, GPIO lines released).
ShutRelease(c) ==
    /\ \E step \in ReleaseSteps :
        /\ callPc[c] = step[1]
        /\ released' = released \cup {step[2]}
        /\ callPc' = [callPc EXCEPT ![c] = step[3]]
    /\ UNCHANGED <<stop_ev, t_vpr, vpr_loop_ev, recStopEv, flagSets, signalled,
                   vprStopEv, pwmVars>>
    /\ ShutFrame

\* shutdown_all: self.vpr.shutdown()
ShutVprShutdown(c) ==
    /\ callPc[c] = "vpr_shutdown"
    /\ vprStopEv' = TRUE
    /\ signalled' = signalled \cup {"vpr"}
    /\ callPc' = [callPc EXCEPT ![c] = "gpio"]
    /\ UNCHANGED <<stop_ev, t_vpr, vpr_loop_ev, released, recStopEv, flagSets, pwmVars>>
    /\ ShutFrame

\* ------------------------------------------------------------ specifications
\* One thread of a running inference unit.
InfLoop(i) ==
    \/ InfGetObs(i)
    \/ InfGetEmpty(i)
    \/ InfDrainDone(i)
    \/ InfDrainMore(i)
    \/ InfDrainGet(i)
    \/ \E out \in PolicyOutputs : InfInfer(i, out)
    \/ InfDrainActTake(i)
    \/ InfDrainActDone(i)
    \/ InfPut(i)
    \/ InfPublish(i)

\* The actuation loop without its brake branch.
ActGoBranch ==
    \/ ActRead
    \/ ActDecideGo
    \/ \E val \in LineValues : ActSample(val)
    \/ ActGet
    \/ ActTimeout
    \/ ActApply
    \/ ActNeutral

\* No inference unit is alive: start_inference is called only then, so that
\* act_q has one producer at a time.
NoUnitAlive == ~(\E j \in Units : IsAlive(j))

\* The running controller: sensor loop, inference (started, stopped, failed and
\* started again, one unit at a time), actuation loop with no stop region set.
Next ==
    \/ SensorStep
    \/ ActGoBranch
    \/ \E i \in Units : InfLoop(i)
    \/ \E i \in Units : InfPublishInit(i)
    \/ \E i \in Units : InfInitDone(i)
    \/ \E i \in Units : InfStopSeen(i)
    \/ \E i \in Units : InfInferFail(i)
    \/ \E i \in Units : InfOff(i)
    \/ StartInfNoop
    \/ (NoUnitAlive /\ StartInfOk)
    \/ (NoUnitAlive /\ StartInfFail)
    \/ StopInfNone("estop")
    \/ StopInfSignal("estop")
    \/ StopInfJoin("estop")
    \/ StopInfJoinUnstarted("estop")
    \/ StopInfBrake("estop")
    \/ StopInfNeutral("estop")

Spec == Init /\ [][Next]_vars

\* start_inference and stop_inference called in any order, a call allowed while
\* an earlier unit is still initialising; the units only initialise, idle and end.
RestartNext ==
    \/ \E i \in Units : InfPublishInit(i)
    \/ \E i \in Units : InfInitDone(i)
    \/ \E i \in Units : InfGetEmpty(i)
    \/ \E i \in Units : InfStopSeen(i)
    \/ \E i \in Units : InfOff(i)
    \/ StartInfNoop
    \/ StartInfOk
    \/ StartInfFail
    \/ StopInfNone("estop")
    \/ StopInfSignal("estop")
    \/ StopInfJoin("estop")
    \/ StopInfJoinUnstarted("estop")
    \/ StopInfBrake("estop")
    \/ StopInfNeutral("estop")

SpecRestart == Init /\ [][RestartNext]_vars

\* The controller after start_inference, one Action (full throttle, full left)
\* put on act_q and not yet taken, and stop_inference: the unit has ended, the
\* actuator is neutral; the VPR thread has initialised.
InitStop ==
    /\ stop_ev = FALSE
    /\ obs_q = << >>
    /\ act_q = << <<1, 10, -10>> >>
    /\ stop_region = NoRegion
    /\ drive_counter = 0
    /\ inf = 1
    /\ t_vpr = "none"
    /\ vpr_loop_ev = FALSE
    /\ sensorPc = "run"
    /\ actPc = "top"
    /\ actTop = << >>
    /\ actHeld = << >>
    /\ btnPc = "run"
    /\ callPc = [c \in Callers |-> "idle"]
    /\ throttle_us = THROTTLE_NEUTRAL
    /\ steer_us = STEER_CENTER
    /\ released = {}
    /\ infPc = [i \in Units |-> IF i = 1 THEN "dead" ELSE "none"]
    /\ infStopEv = [i \in Units |-> i = 1]
    /\ infReady = [i \in Units |-> i = 1]
    /\ infObs = [i \in Units |-> << >>]
    /\ infAct = [i \in Units |-> << >>]
    /\ vprPc = "check"
    /\ vprStopEv = FALSE
    /\ vpr_image = None
    /\ vprImg = None
    /\ pred_hist = << >>
    /\ top_k = ZeroTopK
    /\ recStopEv = FALSE
    /\ shared = [who \in {"inference", "vpr"} |->
                    IF who = "vpr" THEN [status |-> "ok"] ELSE [status |-> "off"]]
    /\ actSeq = 1
    /\ actSeen = 0
    /\ applyCount = [n \in 1..MaxAct |-> 0]
    /\ enabledRun = 0
    /\ iterHit = FALSE
    /\ iterPermit = "na"
    /\ iterCmds = << >>
    /\ iterTaken = 0
    /\ iterTimeout = FALSE
    /\ putFull = FALSE
    /\ flagSets = 0
    /\ signalled = {"inference"}
    /\ vprLog = <<"initializing", "ok">>
    /\ snap = NoSnapshot
    /\ snapTaken = NoSnapshot
    /\ frameLog = << >>
    /\ clearAt = -1
    /\ net = NoNet
    /\ goal_region = NoRegion
    /\ current_path = << >>
    /\ navRes = NoResult
    /\ rec_q = << >>
    /\ prev = 1
    /\ btnLog = << >>
    /\ pubArg = << >>
    /\ clrPc = "idle"
    /\ clrArg = << >>

\* The actuation loop against the stop region and the place recognition.
StopNext ==
    \/ ActGoBranch
    \/ ActDecideStop
    \/ ActBrake
    \/ ActDrain
    \/ \E region \in Regions : SetStopRegion(region)
    \/ ClearStopRegion
    \/ \E f \in Frames : FeedFrame(f)
    \/ FeedExit
    \/ VprIdle
    \/ VprTake
    \/ VprStore
    \/ VprPublish

SpecStop == InitStop /\ [][StopNext]_vars

\* One caller of shutdown_all.
ShutCaller(c) ==
    \/ ShutCheckReturn(c)
    \/ ShutCheckPass(c)
    \/ ShutSet(c)
    \/ StopInfNone(c)
    \/ StopInfSignal(c)
    \/ StopInfJoin(c)
    \/ StopInfJoinUnstarted(c)
    \/ StopInfBrake(c)
    \/ StopInfNeutral(c)
    \/ ShutStopVpr(c)
    \/ ShutRecognizer(c)
    \/ ShutCleanupBrake(c)
    \/ ShutCleanupNeutral(c)
    \/ ShutCleanupSteer(c)
    \/ ShutRelease(c)
    \/ ShutVprShutdown(c)

\* The thread of an inference unit that is given no observation.
InfIdleThread(i) ==
    \/ InfPublishInit(i)
    \/ InfInitDone(i)
    \/ InfGetEmpty(i)
    \/ InfStopSeen(i)
    \/ InfOff(i)

\* The units that shutdown_all stops, each ending when it sees its signal.
StoppedThreads ==
    \/ SensorExit
    \/ ActExit
    \/ BtnExit
    \/ FeedExit
    \/ VprPublishInit
    \/ VprInitDone
    \/ VprIdle
    \/ VprExit

\* Shutdown, from every state of the inference unit: never started, running,
\* hung, ended, never started because its model did not load.
ShutNext ==
    \/ \E c \in ShutCallers : ShutCaller(c)
    \/ \E i \in Units : InfIdleThread(i)
    \/ \E i \in Units : InfHang(i)
    \/ StartInfNoop
    \/ (NoUnitAlive /\ StartInfOk)
    \/ (NoUnitAlive /\ StartInfFail)
    \/ \E region \in Regions : SetStopRegion(region)
    \/ StoppedThreads

SpecShutdown == Init /\ [][ShutNext]_vars

\* The thread of the VPR subsystem: Subsystem.run over VPRSystem.
VprThread ==
    \/ VprPublishInit
    \/ VprInitDone
    \/ VprInitFail
    \/ VprIdle
    \/ VprTake
    \/ VprStore
    \/ VprLoopFail
    \/ VprPublish
    \/ VprExit
    \/ VprOff

\* The life of one subsystem, fed frames, asked to stop at any time, with the
\* shared state read at any time.
UnitNext ==
    \/ VprThread
    \/ VprShutdown
    \/ \E region \in Regions : SetStopRegion(region)
    \/ \E f \in Frames : FeedFrame(f)
    \/ GetStatus

SpecUnit == Init /\ [][UnitNext]_vars

\* The steps of the thread other than the processing of a frame.
VprControl ==
    \/ VprPublishInit
    \/ VprInitDone
    \/ VprIdle
    \/ VprTake
    \/ VprPublish
    \/ VprExit
    \/ VprOff

\* The thread of the subsystem is scheduled and the processing of a frame
\* ends: the last conjunct is WF_vars(VprStore) written out, VprStore being
\* enabled exactly when vprPc = "proc" and leaving that place.
FairUnit ==
    /\ SpecUnit
    /\ WF_vars(VprControl)
    /\ []<>(vprPc # "proc")

\* Every thread that can take a step eventually takes one; a hung unit has none.
FairShutdown ==
    /\ SpecShutdown
    /\ \A c \in ShutCallers : WF_vars(ShutCaller(c))
    /\ \A i \in Units : WF_vars(InfIdleThread(i))
    /\ WF_vars(StoppedThreads)

\* The smoothing on every sequence of at most MaxFrames frames, with clear()
\* called at any point.
SmoothNext ==
    \/ VprPublishInit
    \/ VprInitDone
    \/ \E f \in SmoothFrames : SmoothStep(f)
    \/ VprClear

SpecSmooth == Init /\ [][SmoothNext]_vars

\* ------------------------------------------------------------------ Navigator
\* The region networks a Navigator is constructed from: the chain A-B-C, and a
\* network with a dead end (E), two routes of equal length from A to C (by B
\* and by D) and a region without neighbors (F).
NavNetworks == {"chain", "grid"}

\* The nodes of self._network.
Nodes(n) == IF n = "chain" THEN {"A", "B", "C"} ELSE {"A", "B", "C", "D", "E", "F"}

\* self._network.nodes[r]['pos']
Pos(r) ==
    CASE r = "A" -> <<0, 0>>
      [] r = "B" -> <<1, 0>>
      [] r = "C" -> <<2, 0>>
      [] r = "D" -> <<1, 1>>
      [] r = "E" -> <<-1, 0>>
      [] OTHER   -> <<3, 3>>

\* self._network.neighbors(r), in the order the adjacency was built by
\* _build_networkx_graph from the regions A, B, C, D, E, F of the file.
Neighbors(n, r) ==
    IF n = "chain"
    THEN CASE r = "A" -> <<"B">>
           [] r = "B" -> <<"A", "C">>
           [] r = "C" -> <<"B">>
           [] OTHER   -> << >>
    ELSE CASE r = "A" -> <<"E", "B", "D">>
           [] r = "B" -> <<"A", "C">>
           [] r = "C" -> <<"B", "D">>
           [] r = "D" -> <<"A", "C">>
           [] r = "E" -> <<"A">>
           [] OTHER   -> << >>

NbrSet(n, r) == {Neighbors(n, r)[i] : i \in DOMAIN Neighbors(n, r)}

\* What update() and set_destination() are called with: the regions of the
\* networks, a region of no network, and no region.
NavRegions == Nodes("grid") \cup {"X"}
NavGoals == NavRegions \cup {NoRegion}
ImuHeadings == {0, 45, 90, 135, 180, 225, 270, 315}

\* The turn angle above which _plan_new_path skips a neighbor.
MaxTurn == 135

\* nx.NetworkXNoPath
NoPath == -1

\* Navigator._convert_imu_to_world_yaw
ConvertImuToWorldYaw(imu) == (imu - 90 + 360) % 360

\* (math.degrees(math.atan2(dy, dx)) + 360) % 360 on the displacements between
\* neighboring regions of the networks, where it is a multiple of 45.
Bearing(dx, dy) ==
    CASE dx > 0 /\ dy = 0 -> 0
      [] dx > 0 /\ dy > 0 -> 45
      [] dx = 0 /\ dy > 0 -> 90
      [] dx < 0 /\ dy > 0 -> 135
      [] dx < 0 /\ dy = 0 -> 180
      [] dx < 0 /\ dy < 0 -> 225
      [] dx = 0 /\ dy < 0 -> 270
      [] dx > 0 /\ dy < 0 -> 315
      [] OTHER            -> 0

\* Navigator._calculate_angle_to_neighbor
CalculateAngleToNeighbor(a, b) == Bearing(Pos(b)[1] - Pos(a)[1], Pos(b)[2] - Pos(a)[2])

\* Navigator._calculate_turn_angle
CalculateTurnAngle(current, target) ==
    LET diff == IF current >= target THEN current - target ELSE target - current
    IN  Min(diff, 360 - diff)

\* math.sin and math.cos of a multiple of 45 degrees, in thousandths, rounded.
SinK(a) ==
    CASE a \in {0, 180}   -> 0
      [] a \in {45, 135}  -> 707
      [] a = 90           -> 1000
      [] a \in {225, 315} -> -707
      [] OTHER            -> -1000

CosK(a) == SinK((a + 90) % 360)

\* The direction vector with its components in the order [east, north].
GetDirectionVectorEastFirst(a) == <<CosK(a), SinK(a)>>

\* Navigator._get_direction_vector: [north, east].
GetDirectionVector(a) == <<SinK(a), CosK(a)>>

\* nx.shortest_path_length: breadth-first search, every edge has weight 1.
RECURSIVE BfsLength(_, _, _, _, _)
BfsLength(n, seen, frontier, target, d) ==
    IF target \in frontier THEN d
    ELSE LET nxt == UNION {NbrSet(n, r) : r \in frontier} \ seen
         IN  IF nxt = {} THEN NoPath
             ELSE BfsLength(n, seen \cup nxt, nxt, target, d + 1)

ShortestPathLength(n, a, b) == BfsLength(n, {a}, {a}, b, 0)

\* The walks of d edges from a to b.
RECURSIVE WalksTo(_, _, _, _)
WalksTo(n, a, b, d) ==
    IF d = 0 THEN (IF a = b THEN {<<a>>} ELSE {})
    ELSE UNION {{<<a>> \o w : w \in WalksTo(n, x, b, d - 1)} : x \in NbrSet(n, a)}

\* nx.shortest_path returns one of the shortest paths; which one, where there
\* are several, is the library's choice.
ShortestPaths(n, a, b) ==
    IF ShortestPathLength(n, a, b) = NoPath THEN {}
    ELSE WalksTo(n, a, b, ShortestPathLength(n, a, b))

\* A filter that keeps every neighbor with a route to the goal.
FeasibleAnyTurn(n, cur, heading, goal, nb) == ShortestPathLength(n, nb, goal) # NoPath

\* The neighbors _plan_new_path keeps: at most MaxTurn off the heading, and
\* with a route to the goal.
Feasible(n, cur, heading, goal, nb) ==
    /\ CalculateTurnAngle(heading, CalculateAngleToNeighbor(cur, nb)) <= MaxTurn
    /\ ShortestPathLength(n, nb, goal) # NoPath

Candidates(n, cur, heading, goal) ==
    SelectSeq(Neighbors(n, cur), LAMBDA nb : Feasible(n, cur, heading, goal, nb))

\* min(candidates, key=lambda x: x[0]): the first of the least.
BestNext(n, goal, cands) ==
    LET cost(i) == 1 + ShortestPathLength(n, cands[i], goal)
        best == CHOOSE i \in DOMAIN cands :
                    /\ \A j \in DOMAIN cands : cost(i) <= cost(j)
                    /\ \A j \in 1..(i - 1) : cost(j) > cost(i)
    IN  cands[best]

\* A plan that takes the shortest path, whichever way it starts.
PlanNewPathUnconstrained(n, cur, heading, goal) ==
    IF ShortestPaths(n, cur, goal) = {} THEN {<< >>} ELSE ShortestPaths(n, cur, goal)

\* Navigator._plan_new_path: the paths it can store.
PlanNewPath(n, cur, heading, goal) ==
    LET cands == Candidates(n, cur, heading, goal)
        best == BestNext(n, goal, cands)
        fixed(p) == IF Len(p) < 2 \/ p[2] # best
                    THEN {<<cur>> \o q : q \in ShortestPaths(n, best, goal)}
                    ELSE {p}
    IN  IF cands = << >> THEN {<< >>}
        ELSE UNION {fixed(p) : p \in ShortestPaths(n, cur, goal)}

\* list.index: the first position of r in path, 0 where there is none.
IndexOf(path, r) ==
    IF \E i \in DOMAIN path : path[i] = r
    THEN CHOOSE i \in DOMAIN path : path[i] = r /\ \A j \in 1..(i - 1) : path[j] # r
    ELSE 0

\* The dictionaries update() returns, with the arguments of the call and the
\* goal and the cached path the call found.
Guidance(region, world, path, next) ==
    [status |-> "NAVIGATING", region |-> region, world |-> world,
     goal |-> goal_region, cached |-> current_path,
     direction_vector |-> GetDirectionVector(CalculateAngleToNeighbor(region, next)),
     next_region |-> next, full_path |-> path]

Plain(status, region, world) ==
    [status |-> status, region |-> region, world |-> world,
     goal |-> goal_region, cached |-> current_path]

\* A result that points along the heading of the call.
HaltedAlongHeading(status, region, world) ==
    [status |-> status, region |-> region, world |-> world,
     goal |-> goal_region, cached |-> current_path,
     direction_vector |-> GetDirectionVector(world)]

Halted(status, region, world) ==
    [status |-> status, region |-> region, world |-> world,
     goal |-> goal_region, cached |-> current_path,
     direction_vector |-> <<0, 0>>]

\* Navigator.__init__
NavConstruct(n) ==
    /\ net = NoNet
    /\ net' = n
    /\ goal_region' = NoRegion
    /\ current_path' = << >>
    /\ UNCHANGED navRes
    /\ UNCHANGED <<ctlVars, sensorVars, actVars, pwmVars, infVars, vprVars, snapVars,
                   smoothVars, btnVars, pubVars, shared, actSeq, putFull, act_q>>

\* A set_destination that keeps the cached path when the region is unknown.
SetDestinationKeepsPath(goal) ==
    /\ net # NoNet
    /\ goal_region' = (IF goal \in Nodes(net) THEN goal ELSE NoRegion)
    /\ current_path' = (IF goal \in Nodes(net) THEN << >> ELSE current_path)
    /\ UNCHANGED <<net, navRes>>
    /\ UNCHANGED <<ctlVars, sensorVars, actVars, pwmVars, infVars, vprVars, snapVars,
                   smoothVars, btnVars, pubVars, shared, actSeq, putFull, act_q>>

\* The fields set_destination works on.
PlannerState == [goal_region |-> goal_region, current_path |-> current_path]

\* Navigator.set_destination(goal) on those fields, on the network n.
AfterSetDestination(n, goal, st) ==
    [st EXCEPT !.goal_region = (IF goal \in Nodes(n) THEN goal ELSE NoRegion),
               !.current_path = << >>]

\* Navigator.set_destination
SetDestination(goal) ==
    /\ net # NoNet
    /\ goal_region' = AfterSetDestination(net, goal, PlannerState).goal_region
    /\ current_path' = AfterSetDestination(net, goal, PlannerState).current_path
    /\ UNCHANGED <<net, navRes>>
    /\ UNCHANGED <<ctlVars, sensorVars, actVars, pwmVars, infVars, vprVars, snapVars,
                   smoothVars, btnVars, pubVars, shared, actSeq, putFull, act_q>>

\* Navigator.update, from the first plan on: the path `path` is in
\* self.current_path.
Follow(region, world, path) ==
    IF path = << >>
    THEN /\ current_path' = << >>
         /\ navRes' = Halted("TURN_AROUND", region, world)
    ELSE IF IndexOf(path, region) # 0 /\ IndexOf(path, region) + 1 <= Len(path)
    THEN /\ current_path' = path
         /\ navRes' = Guidance(region, world, path, path[IndexOf(path, region) + 1])
    ELSE \E again \in PlanNewPath(net, region, world, goal_region) :
            /\ current_path' = again
            /\ navRes' = IF again = << >>
                         THEN Halted("TURN_AROUND", region, world)
                         ELSE Guidance(region, world, again, again[2])

\* Navigator.update
Update(region, imu) ==
    LET world == ConvertImuToWorldYaw(imu) IN
    /\ net # NoNet
    /\ IF goal_region = NoRegion
       THEN navRes' = Plain("IDLE", region, world) /\ UNCHANGED current_path
       ELSE IF region \notin Nodes(net)
       THEN navRes' = Plain("ERROR", region, world) /\ UNCHANGED current_path
       ELSE IF region = goal_region
       THEN navRes' = Halted("GOAL_REACHED", region, world) /\ UNCHANGED current_path
       ELSE IF current_path = << >> \/ IndexOf(current_path, region) = 0
       THEN \E path \in PlanNewPath(net, region, world, goal_region) :
                Follow(region, world, path)
       ELSE Follow(region, world, current_path)
    /\ UNCHANGED <<net, goal_region>>
    /\ UNCHANGED <<ctlVars, sensorVars, actVars, pwmVars, infVars, vprVars, snapVars,
                   smoothVars, btnVars, pubVars, shared, actSeq, putFull, act_q>>

\* A Navigator on its own: any network, any sequence of set_destination and
\* update calls.
NavNext ==
    \/ \E n \in NavNetworks : NavConstruct(n)
    \/ \E g \in NavGoals : SetDestination(g)
    \/ \E r \in NavRegions, h \in ImuHeadings : Update(r, h)

SpecNav == Init /\ [][NavNext]_vars

\* set_stop_region(None) against the VPR thread, loop and clear taken statement
\* by statement.
PublishNext ==
    \/ \E region \in Regions : SetStopRegion(region)
    \/ \E f \in Frames : FeedFrame(f)
    \/ FeedExit
    \/ VprPublishInit
    \/ VprInitDone
    \/ VprTake
    \/ VprStore
    \/ VprPublishArg
    \/ VprPublishPut
    \/ ClearZero
    \/ ClearArg
    \/ ClearPut

SpecPublish == Init /\ [][PublishNext]_vars

\* The button loop and the recognizer's intake, the trigger line and the camera
\* being anything.
ButtonNext ==
    \/ \E val \in {0, 1}, frame \in Frames \cup {None} : BtnPoll(val, frame)
    \/ RecTake

SpecButton == Init /\ [][ButtonNext]_vars

\* The two setters an external caller has, set_stop_region against the feed
\* loop and the VPR thread, set_destination against update() on the chain.
SetterNext ==
    \/ \E region \in Regions : SetStopRegion(region)
    \/ ClearStopRegion
    \/ \E f \in Frames : FeedFrame(f)
    \/ FeedExit
    \/ VprPublishInit
    \/ VprInitDone
    \/ VprTake
    \/ VprStore
    \/ VprPublish
    \/ NavConstruct("chain")
    \/ \E g \in NavGoals : SetDestination(g)
    \/ \E r \in Nodes("chain") : Update(r, 90)

SpecSetters == Init /\ [][SetterNext]_vars

\* The four loops of the controller with reads and writes that can raise.  The
\* reads of the sensor loop cannot: BNO085.yaw, accel_x and gyro_z return a
\* default on any exception, LD19.get_recip_scan reads a list under a lock.
FaultNext ==
    \/ SensorStep
    \/ ActRead
    \/ ActDecideGo
    \/ \E val \in LineValues : ActSample(val)
    \/ ActTimeout
    \/ ActNeutral
    \/ ActFault
    \/ \E region \in Regions : SetStopRegion(region)
    \/ \E f \in Frames : FeedFrame(f)
    \/ FeedFault
    \/ BtnPoll(0, "fa")
    \/ BtnPoll(1, "fa")
    \/ BtnFault

SpecFault == Init /\ [][FaultNext]_vars

\* The PWM driver called in any order with any commands.
PwmNext ==
    \/ \E t \in CommandValues, st \in CommandValues : PwmSetControls(t, st)
    \/ PwmHardBrake
    \/ PwmCleanup

SpecPwm == Init /\ [][PwmNext]_vars

\* ------------------------------------------------------------------ claims
\* C1: in an actuation cycle that finds the stop condition true, the only
\* command the cycle issues is hard_brake, no Action is held or applied, and
\* when the brake branch ends act_q is empty.
C1_BrakeOnlyInStopCycle ==
    /\ [](iterHit => /\ actHeld = << >>
                     /\ iterCmds \in {<< >>, <<"brake">>}
                     /\ (actPc \in {"drain", "top"} => iterCmds = <<"brake">>))
    /\ [][(actPc = "drain" /\ actPc' = "top") => act_q' = << >>]_vars

\* C1 witness: a brake cycle has ended with a pending Action dropped, unapplied.
C1_Witness ==
    /\ actPc = "top"
    /\ iterHit
    /\ iterCmds = <<"brake">>
    /\ iterTaken = 1
    /\ applyCount[1] = 0
    /\ throttle_us = THROTTLE_BRAKE_US

\* C2: a cycle in which driving is permitted and the wait for an Action times
\* out leaves the actuator at neutral or brake, not at a drive pulse.
C2_TimeoutLeavesSafeState ==
    (iterTimeout /\ actPc = "top") => throttle_us \in {THROTTLE_NEUTRAL, THROTTLE_BRAKE_US}

\* C3: the debounce counter is the number of enabled samples since the last
\* disabled one; drive_enabled() returns true, and an Action is taken and
\* applied, only after more than DriveEnableThreshold such samples.
C3_DebounceBeforeDrive ==
    /\ drive_counter = enabledRun
    /\ iterPermit = "yes" => enabledRun > DriveEnableThreshold
    /\ actPc \in {"get", "apply"} => enabledRun > DriveEnableThreshold
    /\ iterPermit = "no" => actHeld = << >>

\* C3 witness: an Action is about to be applied on the first permitted sample.
C3_Witness ==
    /\ actPc = "apply"
    /\ actHeld # << >>
    /\ enabledRun = DriveEnableThreshold + 1

\* C4: a cycle with the stop condition false and driving not permitted
\* commands neutral (1500 us on both channels) and takes no Action off act_q.
C4_NeutralWhenNotPermitted ==
    /\ [](iterPermit = "no" => /\ iterTaken = 0
                               /\ (actPc = "neutral" => iterCmds = << >>)
                               /\ (actPc = "top" => iterCmds = <<"neutral">>))
    /\ [][(actPc = "neutral" /\ actPc' = "top")
            => /\ throttle_us' = THROTTLE_NEUTRAL
               /\ steer_us' = STEER_CENTER
               /\ act_q' = act_q]_vars

\* C4 witness: with a stop region set and not recognised, a cycle that was not
\* permitted to drive has commanded neutral and left the pending Action queued.
C4_Witness ==
    /\ actPc = "top"
    /\ stop_region # NoRegion
    /\ iterPermit = "no"
    /\ iterCmds = <<"neutral">>
    /\ act_q # << >>
    /\ throttle_us = THROTTLE_NEUTRAL

\* C5: the observation the inference unit acts on was, when the unit read it,
\* the most recently produced one.
C5_ActsOnNewestObservation ==
    \A i \in Units : infPc[i] = "infer" => infObs[i] = <<TRUE>>

\* C6: act_q never holds more than one Action, the put after the drain never
\* raises Full, no Action is applied twice, and the Action the actuation loop
\* takes is the most recently put one.
C6_ActionChannelLatestOnce ==
    /\ Len(act_q) <= 1
    /\ ~putFull
    /\ \A n \in 1..MaxAct : applyCount[n] <= 1
    /\ actPc = "apply" => actHeld[1] = actSeen

\* C6 witness: the second Action is about to be applied, the first one having
\* been replaced unread.
C6_Witness ==
    /\ actPc = "apply"
    /\ actHeld[1] = 2
    /\ applyCount[1] = 0

\* The callers of shutdown_all that set the stop flag and whose call is over.
Ended(c) == callPc[c] \in {"done", "raised"}

\* C7: a shutdown_all that set the stop flag has, when it is over, run
\* PWMController.cleanup (the outputs are disabled, at neutral).
C7_ShutdownReachesCleanup ==
    \A c \in ShutCallers : Ended(c) => "pwm" \in released

\* The units shutdown_all has to signal.
AllUnits == {"sensor", "act", "button", "feed", "inference", "recognizer", "vpr"}

\* C8: no hardware is released before every unit has been told to stop.
C8_SignalBeforeRelease == released # {} => AllUnits \subseteq signalled

\* C9: a shutdown_all that set the stop flag comes to an end.
C9_ShutdownTerminates ==
    \A c \in ShutCallers : (callPc[c] = "si_begin") ~> Ended(c)

\* C10: the stop flag is set once and one caller at most runs the body.
C10_ShutdownBodyOnce ==
    /\ flagSets <= 1
    /\ Cardinality({c \in ShutCallers : callPc[c] \notin {"idle", "set", "returned"}}) <= 1

\* run() published "error" right after "initializing": init_hardware raised.
InitFailed == Len(vprLog) >= 2 /\ vprLog[2] = "error"

\* C11: once a step of the unit has raised and the unit has published 'error'
\* with the message, 'error' stays the last status the unit publishes and its
\* entry in the shared state.
C11_ErrorStaysFinal ==
    (\E k \in 1..Len(vprLog) : vprLog[k] = "error")
        => /\ vprLog[Len(vprLog)] = "error"
           /\ shared["vpr"] \in {[status |-> "error", error |-> e] : e \in {"init", "loop"}}

\* C12: 'initializing' is the first status run() publishes; 'ok' is published
\* second or not at all, after init succeeded and before any step; when init
\* fails, 'error' is the last status, no step is made and the thread has ended.
C12_InitStatusOrder ==
    /\ vprLog # << >> => vprLog[1] = "initializing"
    /\ \A k \in 1..Len(vprLog) : vprLog[k] = "ok" => k = 2
    /\ vprPc \in {"start", "init"} => Len(vprLog) <= 1
    /\ vprPc \in {"proc", "pub", "failed"} => (Len(vprLog) >= 2 /\ vprLog[2] = "ok")
    /\ InitFailed => (vprLog = <<"initializing", "error">> /\ vprPc = "dead")
    /\ InitFailed => shared["vpr"] = [status |-> "error", error |-> "init"]

\* C12 witness: init failed after a stop request; the thread has ended.
C12_Witness ==
    /\ InitFailed
    /\ vprPc = "dead"
    /\ vprStopEv

\* C13: a unit whose init succeeded and that was asked to stop ends, with
\* 'off' the last status it published, and makes no step after it has ended.
C13_StopRequestEndsUnit ==
    /\ (("vpr" \in signalled /\ Len(vprLog) >= 2 /\ vprLog[2] = "ok")
            ~> (vprPc = "dead" /\ vprLog[Len(vprLog)] = "off"))
    /\ []((vprPc = "dead" /\ ~InitFailed) => vprLog[Len(vprLog)] = "off")
    /\ [][vprPc = "dead" => vprPc' = "dead"]_vars

\* C13 witness: a stop was requested with a frame waiting; the unit published
\* 'off' without having processed it, and ended.
C13_Witness ==
    /\ vprPc = "dead"
    /\ "vpr" \in signalled
    /\ vprLog = <<"initializing", "ok", "off">>
    /\ top_k = ZeroTopK
    /\ vpr_image # None

\* The complete field set of one put() of the VPR subsystem.
IsVprEntry(e) ==
    \/ DOMAIN e = {"status"} /\ e.status \in {"initializing", "ok", "off"}
    \/ DOMAIN e = {"status", "error"} /\ e.status = "error"
    \/ DOMAIN e = {"top_regions"}

\* C14: what a snapshot shows for a key is the whole entry of the last put for
\* that key before the snapshot, and no later put changes a snapshot.
C14_SnapshotWholeAndFrozen ==
    snap.kind # "none"
        => /\ View(snap) = snapTaken
           /\ IsVprEntry(View(snap)["vpr"])

\* C14 witness: a snapshot taken while the unit reported 'ok' is held while the
\* unit has gone on to publish an error.
C14_Witness ==
    /\ snap.kind = "copy"
    /\ snap.data["vpr"] = [status |-> "ok"]
    /\ shared["vpr"] = [status |-> "error", error |-> "loop"]

\* The frames the window retains: the last AVG_WINDOW pushed.
RetainedFrames ==
    SubSeq(frameLog, Max(1, Len(frameLog) - AVG_WINDOW + 1), Len(frameLog))

\* Where region r is matched in the frames: <<frame, rank>> pairs.
SamplesOf(r, frames) ==
    {x \in (1..Len(frames)) \X (1..TOP_K) : FrameTop(frames[x[1]])[x[2]][1] = r}

RECURSIVE SampleSum(_, _)
\* The sum of the confidences at the places S.
SampleSum(S, frames) ==
    IF S = {} THEN 0
    ELSE LET x == CHOOSE y \in S : TRUE
         IN  FrameTop(frames[x[1]])[x[2]][2] + SampleSum(S \ {x}, frames)

\* C15: the confidence reported for a region is the mean (kept as sum and
\* count) of the region's confidences in the frames retained, the last
\* AVG_WINDOW pushed: older frames and frames without the region add nothing.
C15_MeanOverRetainedFrames ==
    (frameLog # << >> /\ clearAt # Len(frameLog))
        => \A k \in 1..Len(top_k) :
              LET S == SamplesOf(top_k[k][1], RetainedFrames)
              IN  /\ S # {}
                  /\ top_k[k][2] = SampleSum(S, RetainedFrames)
                  /\ top_k[k][3] = Cardinality(S)

\* C15 witness: AVG_WINDOW + 1 frames were pushed, only the oldest matched r1,
\* and r1 is not in the estimate.
C15_Witness ==
    /\ frameLog = <<"c1", "c3", "c3", "c3">>
    /\ clearAt = -1
    /\ \A k \in 1..Len(top_k) : top_k[k][1] # "r1"

\* The three frames of the scenario were pushed into an empty window.
Scenario16 == frameLog = <<"c1", "c2", "c3">> /\ clearAt = -1

\* C16, as amended: after (r1, 0.9), (r1, 0.6), (r2, 0.8) the estimate lists
\* r2 at 0.8 first and r1 at 0.75, the mean of its two samples, second.
C16_ScenarioRanking ==
    Scenario16 => (top_k[1] = <<"r2", 80, 1>> /\ top_k[2] = <<"r1", 150, 2>>)

\* C16 witness: the scenario has run.
C16_Witness == Scenario16 /\ Len(top_k) = TOP_K /\ top_k[2][1] = "r1"

\* C16, as stated: after the scenario r1 at 0.75 is the first entry, above r2.
C16_AsStated == Scenario16 => top_k[1] = <<"r1", 150, 2>>

\* C17: once clear() has returned the estimate is zeroed and the window is
\* empty, and the estimate after the next frame is that of this frame alone.
C17_ClearEmptiesWindow ==
    clearAt >= 0
        => /\ Len(frameLog) = clearAt => (top_k = ZeroTopK /\ pred_hist = << >>)
           /\ Len(frameLog) = clearAt + 1
                => top_k = Smooth(<<FrameTop(frameLog[Len(frameLog)])>>)

\* C18: once set_stop_region(None) has returned, and until a stop region is
\* set again, get_top_regions returns the zeroed estimate.
C18_ClearedEstimateStaysZero == stop_region = NoRegion => top_k = ZeroTopK

\* The feed loop runs and has not been told to stop.
FeedLoopLive == t_vpr = "alive" /\ ~vpr_loop_ev

\* C19: between set_stop_region calls, a stop region is set exactly when a
\* feed loop is running that has not been told to stop.
C19_FeedLoopFollowsRegion == (stop_region # NoRegion) <=> FeedLoopLive

\* C20: whenever update() returns NAVIGATING, the next region it names is a
\* neighbor of the current region whose bearing is at most 135 degrees off the
\* world heading of that call.
C20_NextHopIsForward ==
    navRes.status = "NAVIGATING" =>
        /\ navRes.next_region \in NbrSet(net, navRes.region)
        /\ CalculateTurnAngle(navRes.world,
               CalculateAngleToNeighbor(navRes.region, navRes.next_region)) <= MaxTurn

\* C21: whatever the heading and the planner's state, update() at the goal
\* region returns GOAL_REACHED with the direction vector [0, 0], and update()
\* with no destination set returns IDLE.
C21_TerminalResults ==
    navRes.status # "NONE" =>
        /\ navRes.goal = NoRegion => navRes.status = "IDLE"
        /\ (navRes.goal # NoRegion /\ navRes.region = navRes.goal) =>
               /\ navRes.status = "GOAL_REACHED"
               /\ navRes.direction_vector = <<0, 0>>

\* C21 witness: the goal was reached with a path cached and the vehicle
\* heading away from east.
C21_Witness ==
    /\ navRes.status = "GOAL_REACHED"
    /\ navRes.region = navRes.goal
    /\ navRes.world # 0
    /\ navRes.cached # << >>

\* C22: set_destination with no region or with a region that is not in the
\* network unsets the goal and empties the cached path, whatever was cached;
\* while the goal is unset no path is cached and every update() returns IDLE.
C22_UnsetClearsPath ==
    /\ [][\A g \in NavGoals :
            (g \notin Nodes(net) /\ SetDestination(g)) =>
                (goal_region' = NoRegion /\ current_path' = << >>)]_vars
    /\ [](goal_region = NoRegion => current_path = << >>)
    /\ []((navRes.status # "NONE" /\ navRes.goal = NoRegion) =>
             (navRes.status = "IDLE" /\ navRes.cached = << >>))

\* C22 witness: the last update() gave guidance along a path it cached, and the
\* destination has been unset since.
C22_Witness ==
    /\ navRes.status = "NAVIGATING"
    /\ Len(navRes.full_path) >= 3
    /\ goal_region = NoRegion
    /\ current_path = << >>

\* C23: on the chain A-B-C at (0,0), (1,0), (2,0) with goal C and no path
\* cached, update() at A with the world heading 0 (along +x) returns NAVIGATING
\* with the path [A, B, C], the next region B and the direction vector north 0,
\* east 1.
C23_ChainScenario ==
    (/\ net = "chain"
     /\ navRes.status # "NONE"
     /\ navRes.goal = "C"
     /\ navRes.region = "A"
     /\ navRes.world = 0
     /\ navRes.cached = << >>) =>
        /\ navRes.status = "NAVIGATING"
        /\ navRes.full_path = <<"A", "B", "C">>
        /\ navRes.next_region = "B"
        /\ navRes.direction_vector = <<0, 1000>>

\* C23 witness: the scenario, planned with nothing cached.
C23_Witness ==
    /\ net = "chain"
    /\ navRes.status = "NAVIGATING"
    /\ navRes.goal = "C"
    /\ navRes.region = "A"
    /\ navRes.world = 0
    /\ navRes.cached = << >>
    /\ current_path = <<"A", "B", "C">>

\* C24: every falling edge the button loop sees while the camera holds a frame
\* puts that frame into rec_q: none is dropped, whatever rec_q holds.
C24_EveryEdgeForwarded == \A k \in DOMAIN btnLog : btnLog[k] \in {"sent", "noframe"}

C26_LoopsSurviveFaults ==
    ~stop_ev =>
        /\ sensorPc = "run"
        /\ actPc # "done"
        /\ btnPc = "run"
        /\ stop_region # NoRegion => t_vpr = "alive"

\* C27: a unit whose model failed to load shows as status 'error' in the
\* 'inference' entry of Shared State, and no stop_inference or shutdown_all
\* call ends in an exception.
C27_LoadFailureConfined ==
    /\ (inf # 0 /\ infPc[inf] = "new") =>
           ("status" \in DOMAIN shared["inference"]
            /\ shared["inference"].status = "error")
    /\ \A c \in Callers : callPc[c] # "raised"

\* The last update() planned: it had a goal, a region of the network that is
\* not the goal, and no cached path through that region.
Planned ==
    /\ navRes.status \in {"NAVIGATING", "TURN_AROUND"}
    /\ \A i \in DOMAIN navRes.cached : navRes.cached[i] # navRes.region

\* The neighbors of the last update()'s region that are at most 135 degrees
\* off its heading and have a route to its goal.
Forward ==
    {nb \in NbrSet(net, navRes.region) :
        /\ CalculateTurnAngle(navRes.world,
               CalculateAngleToNeighbor(navRes.region, nb)) <= MaxTurn
        /\ ShortestPathLength(net, nb, navRes.goal) # NoPath}

\* C28: when _plan_new_path finds a forward-feasible neighbor with a route to
\* the goal, the stored path starts with the current region, goes on with a
\* forward-feasible neighbor of least distance to the goal, follows edges of
\* the network and ends at the goal.  The path update() returns in full_path
\* is the stored one.
C28_PlanThroughBestForward ==
    (Planned /\ Forward # {}) =>
        /\ navRes.status = "NAVIGATING"
        /\ Len(navRes.full_path) >= 2
        /\ navRes.full_path[1] = navRes.region
        /\ navRes.full_path[2] \in Forward
        /\ \A nb \in Forward :
              ShortestPathLength(net, navRes.full_path[2], navRes.goal)
                  <= ShortestPathLength(net, nb, navRes.goal)
        /\ \A i \in 1..(Len(navRes.full_path) - 1) :
              navRes.full_path[i + 1] \in NbrSet(net, navRes.full_path[i])
        /\ navRes.full_path[Len(navRes.full_path)] = navRes.goal

\* C28 witness: the shortest path from the region starts with a neighbor behind
\* the vehicle, and the stored path is a longer one through a forward neighbor.
C28_Witness ==
    /\ Planned
    /\ navRes.status = "NAVIGATING"
    /\ Len(navRes.full_path) > 1 + ShortestPathLength(net, navRes.region, navRes.goal)

\* The last update() had a goal, a region of the network that is not the goal
\* and no cached path through it, and every neighbor of the region is more
\* than 135 degrees off the heading.
NothingAhead ==
    /\ navRes.status # "NONE"
    /\ navRes.goal # NoRegion
    /\ navRes.region \in Nodes(net)
    /\ navRes.region # navRes.goal
    /\ \A i \in DOMAIN navRes.cached : navRes.cached[i] # navRes.region
    /\ \A nb \in NbrSet(net, navRes.region) :
          CalculateTurnAngle(navRes.world,
              CalculateAngleToNeighbor(navRes.region, nb)) > MaxTurn

\* C29: an update() with a goal, a valid region that is not the goal, no usable
\* cached path and no neighbor within 135 degrees of the heading returns
\* TURN_AROUND with the direction vector [0, 0] and leaves the cached path empty.
C29_TurnAroundWhenNothingAhead ==
    /\ [](NothingAhead =>
             (navRes.status = "TURN_AROUND" /\ navRes.direction_vector = <<0, 0>>))
    /\ [][(navRes' # navRes /\ NothingAhead') => current_path' = << >>]_vars

\* C29 witness: the region has a neighbor, behind the vehicle, and the call
\* found a path cached from elsewhere.
C29_Witness ==
    /\ NothingAhead
    /\ navRes.status = "TURN_AROUND"
    /\ NbrSet(net, navRes.region) # {}
    /\ navRes.cached # << >>
    /\ current_path = << >>

\* The status values of a Shared State entry.
StatusValues == {"initializing", "ok", "running", "error", "off"}

\* C30: every entry of Shared State that has been written carries a status
\* field with one of the five status values.
C30_EntriesCarryStatus ==
    \A who \in DOMAIN shared :
        \/ DOMAIN shared[who] = {"absent"}
        \/ /\ "status" \in DOMAIN shared[who]
           /\ shared[who].status \in StatusValues

\* C31: the estimate get_top_regions returns has exactly TOP_K entries, in
\* order of non-increasing confidence, and names no region twice (the
\* placeholder of the zeroed state aside).
C31_TopKWellFormed ==
    /\ Len(top_k) = TOP_K
    /\ \A i \in 1..(Len(top_k) - 1) : ~ConfGreater(top_k[i + 1], top_k[i])
    /\ \A i, j \in DOMAIN top_k :
          (i # j /\ top_k[i][1] = top_k[j][1]) => top_k[i][1] = NoRegion

\* C32: the VPR unit holds at most one pending frame; the loop takes the
\* pending frame and empties the slot in one step, so no frame is processed
\* twice and None is never processed; set_image replaces the pending frame and
\* nothing else; the window changes only by the push of the frame taken, and
\* the estimate only by that processing or by clear().
C32_OneFrameInFlight ==
    /\ [](vprPc = "proc" => vprImg # None)
    /\ [][(vprImg' # vprImg /\ vprImg' # None) =>
              (vprImg' = vpr_image /\ vpr_image' = None)]_vars
    /\ [][(vpr_image' # vpr_image /\ vpr_image' # None) =>
              (vprImg' = vprImg /\ pred_hist' = pred_hist /\ top_k' = top_k)]_vars
    /\ [][pred_hist' # pred_hist =>
              (/\ vprPc = "proc"
               /\ pred_hist' = PushWindow(pred_hist, FrameTop(vprImg))
               /\ vprImg' = None)]_vars
    /\ [][top_k' # top_k => (vprPc = "proc" \/ top_k' = ZeroTopK)]_vars

\* C32 witness: one frame is being processed, a frame fed after it was taken
\* has been replaced by a newer one, and the window holds a frame already.
C32_Witness ==
    /\ vprPc = "proc"
    /\ vprImg = "fa"
    /\ vpr_image = "fb"
    /\ pred_hist # << >>

\* C33: after any sequence of set_controls, hard_brake and cleanup calls the
\* steering pulse is within [1000, 2000] and the throttle pulse is brake,
\* neutral or within [1575, 1600]; set_controls gives no throttle pulse below
\* neutral and gives neutral for every throttle <= 0.
C33_PulsesInRange ==
    /\ steer_us \in STEER_MIN..STEER_MAX
    /\ \/ throttle_us \in {THROTTLE_BRAKE_US, THROTTLE_NEUTRAL}
       \/ throttle_us \in THR_START_US..THR_MAX_US
    /\ \A t \in CommandValues :
          /\ ThrottleUs(t) >= THROTTLE_NEUTRAL
          /\ t <= 0 => ThrottleUs(t) = THROTTLE_NEUTRAL

\* C33 witness: the largest throttle pulse with the steering at its lower end.
C33_Witness == throttle_us = THR_MAX_US /\ steer_us = STEER_MIN

\* C34: from the return of stop_inference on, with no start_inference, the
\* actuation loop applies no drive command: the throttle pulse stays neutral or
\* brake, whatever the stopped unit left in act_q.
C34_NoDriveAfterStop == throttle_us \in {THROTTLE_NEUTRAL, THROTTLE_BRAKE_US}

\* C35: whatever the order of start_inference and stop_inference calls, every
\* Inference unit whose thread is alive is the one self.inf refers to, so at
\* most one unit is alive and stop_inference stops it.
C35_AliveUnitIsReferenced == \A i \in Units : IsAlive(i) => i = inf

\* C36: after any sequence of set_destination and update calls the planner's
\* cached path holds no region more than once.
C36_PathHasNoRepeat ==
    \A a, b \in 1..Len(current_path) : a # b => current_path[a] # current_path[b]

\* C37: an actuation cycle that takes the brake branch does not call
\* drive_enabled(): through the cycle the debounce counter keeps its value and
\* no sample is recorded, so the next cycle's sample is counted on top of the
\* value held before braking.
C37_BrakeCycleKeepsCounter ==
    [][iterHit' => (drive_counter' = drive_counter /\ iterPermit' = "na")]_vars

\* A finished brake cycle that found the counter at the threshold and left it
\* there: one more enabled sample permits driving.
C37_Witness ==
    /\ iterHit
    /\ actPc = "top"
    /\ iterCmds = <<"brake">>
    /\ drive_counter = DriveEnableThreshold

\* C38: once VPRSystem.loop and VPRSystem.clear have both finished, the
\* top_regions stored in the 'vpr' entry of the shared state is the estimate
\* get_top_regions returns.
C38_PublishedIsEstimate ==
    (/\ vprPc = "check"
     /\ clrPc = "idle"
     /\ "top_regions" \in DOMAIN shared["vpr"]) => shared["vpr"].top_regions = top_k


====
